---- MODULE Spec2Model ----
(***************************************************************************)
(* ReviewWeb.site MCP adapter: one operation invocation end to end.        *)
(*                                                                         *)
(*   front end (MCP tool handler | direct controller call)                 *)
(*     -> controller (getApiKey, service call, JSON.stringify envelope)    *)
(*     -> service (request construction, axios call, handleApiError)       *)
(*     -> remote answer (2xx | non-2xx | no response)                      *)
(*                                                                         *)
(* A call is synchronous up to the one `await axios...` and synchronous    *)
(* again from the moment that promise settles, so it is two steps: the     *)
(* invocation and the settlement.  Nothing is kept between calls: the      *)
(* variables below describe the call in progress and are cleared when the  *)
(* caller has its result.                                                  *)
(***************************************************************************)
EXTENDS Integers, Sequences, FiniteSets, TLC

VARIABLES
    config,     \* process-wide configuration read by config.get(name)
    pc,         \* "idle" | "awaiting" | "done"
    call,       \* the invocation: front end, operation, arguments as given
    ctlArgs,    \* what reached the controller: <<>> or <<[primary, options, apiOptions]>>
    sent,       \* HTTP requests issued by this call, in order
    answer,     \* how the request settled
    svcThrown,  \* errors raised by the service (handleApiError), in order
    ctlOut,     \* what the controller returned or threw
    feOut,      \* what the front end handed to its caller
    logs,       \* records handed to the logger during this call, in order
    conc        \* calls running at the same time: one record per caller

vars == <<config, pc, call, ctlArgs, sent, answer, svcThrown, ctlOut, feOut, logs,
          conc>>

\* the variables of the one-call-at-a-time runs
seqVars == <<pc, call, ctlArgs, sent, answer, svcThrown, ctlOut, feOut, logs>>

----------------------------------------------------------------------------
(* Bounds *)

\* longest urls list a multi-URL call is given
MaxUrls == 2

\* how many times a numeric flag is given on one command line, at most
MaxOccurrences == 2

----------------------------------------------------------------------------
(* JSON values and JSON.stringify(value, null, gap)                        *)
(*                                                                         *)
(* A JSON value is a node [t, s, n, b, kids].  Strings are kept as         *)
(* sequences of characters so that quoting can escape them; object members *)
(* and array items are the sequence kids of [k, v] pairs (k unused in      *)
(* arrays).                                                                *)

JNull == [t |-> "null", s |-> <<>>, n |-> 0, b |-> FALSE, kids |-> <<>>]
JBool(x) == [t |-> "bool", s |-> <<>>, n |-> 0, b |-> x, kids |-> <<>>]
JNum(x) == [t |-> "num", s |-> <<>>, n |-> x, b |-> FALSE, kids |-> <<>>]
JStr(chars) == [t |-> "str", s |-> chars, n |-> 0, b |-> FALSE, kids |-> <<>>]
JObj(members) == [t |-> "obj", s |-> <<>>, n |-> 0, b |-> FALSE, kids |-> members]
JArr(items) ==
    [t |-> "arr", s |-> <<>>, n |-> 0, b |-> FALSE,
     kids |-> [i \in 1..Len(items) |-> [k |-> <<>>, v |-> items[i]]]]
Member(key, value) == [k |-> key, v |-> value]

\* a JavaScript string from its characters
RECURSIVE Str(_)
Str(chars) == IF chars = <<>> THEN "" ELSE Head(chars) \o Str(Tail(chars))

\* QuoteJSONString: the characters between double quotes, with ", \ and
\* newline escaped
EscapeChar(c) ==
    CASE c = "\"" -> "\\\""
      [] c = "\\" -> "\\\\"
      [] c = "\n" -> "\\n"
      [] OTHER -> c

RECURSIVE EscapeAll(_)
EscapeAll(chars) ==
    IF chars = <<>> THEN "" ELSE EscapeChar(Head(chars)) \o EscapeAll(Tail(chars))

Quote(chars) == "\"" \o EscapeAll(chars) \o "\""

RECURSIVE Spaces(_)
Spaces(n) == IF n <= 0 THEN "" ELSE " " \o Spaces(n - 1)

\* SerializeJSONProperty / SerializeJSONObject / SerializeJSONArray: with an
\* empty gap everything is on one line and the member separator is ":",
\* otherwise each member is on a line of its own, indented by gap per level,
\* and the member separator is ": ".
RECURSIVE JSONStringify(_, _, _)
RECURSIVE SerializeKids(_, _, _, _)

SerializeKids(kids, isObject, gap, level) ==
    LET first == Head(kids)
        item == (IF isObject
                    THEN Quote(first.k) \o (IF gap = 0 THEN ":" ELSE ": ")
                    ELSE "")
                \o JSONStringify(first.v, gap, level)
        lead == IF gap = 0 THEN "" ELSE Spaces(gap * level)
        sep == IF gap = 0 THEN "," ELSE ",\n"
    IN  IF Len(kids) = 1
           THEN lead \o item
           ELSE lead \o item \o sep \o SerializeKids(Tail(kids), isObject, gap, level)

JSONStringify(v, gap, level) ==
    CASE v.t = "null" -> "null"
      [] v.t = "bool" -> (IF v.b THEN "true" ELSE "false")
      [] v.t = "num" -> ToString(v.n)
      [] v.t = "str" -> Quote(v.s)
      [] v.t \in {"obj", "arr"} ->
            LET open == IF v.t = "obj" THEN "{" ELSE "["
                close == IF v.t = "obj" THEN "}" ELSE "]"
            IN  IF v.kids = <<>>
                   THEN open \o close
                   ELSE IF gap = 0
                           THEN open \o SerializeKids(v.kids, v.t = "obj", gap, level + 1)
                                     \o close
                           ELSE open \o "\n"
                                     \o SerializeKids(v.kids, v.t = "obj", gap, level + 1)
                                     \o "\n" \o Spaces(gap * level) \o close

\* property lookup on a parsed body: the value of the last member named key
HasMember(v, key) == v.t = "obj" /\ \E i \in 1..Len(v.kids) : v.kids[i].k = key
GetMember(v, key) ==
    LET idx == {i \in 1..Len(v.kids) : v.kids[i].k = key}
    IN  v.kids[CHOOSE i \in idx : \A j \in idx : j <= i].v

\* JavaScript truthiness of a JSON value
Truthy(v) ==
    CASE v.t = "null" -> FALSE
      [] v.t = "bool" -> v.b
      [] v.t = "num" -> v.n # 0
      [] v.t = "str" -> v.s # <<>>
      [] OTHER -> TRUE

\* typeof v === 'object' (null included, as in JavaScript)
TypeofObject(v) == v.t \in {"obj", "arr", "null"}

----------------------------------------------------------------------------
(* JavaScript values *)

\* the value of a property that is not there
Undefined == "<undefined>"

\* !x for a string-or-undefined x
Falsy(x) == x \in {Undefined, ""}

\* a || b
JsOr(a, b) == IF Falsy(a) THEN b ELSE a

\* obj.name, Undefined when the property is absent
Prop(obj, name) == IF name \in DOMAIN obj THEN obj[name] ELSE Undefined

\* an object literal {f1: src.f1, ...}: a property whose value is undefined
\* is the same as no property once the object is logged or serialized
Pick(src, fields) == [f \in (fields \cap DOMAIN src) |-> src[f]]

EmptyObject == [f \in {} |-> Undefined]

----------------------------------------------------------------------------
(* Operations *)

\* functions exported by the controller
ControllerOps ==
    {"convertToMarkdown", "convertMultipleToMarkdown", "extractData",
     "extractDataMultiple", "scrapeUrl", "extractLinks", "summarizeUrl",
     "summarizeWebsite", "summarizeMultipleUrls", "isUrlAlive",
     "getUrlAfterRedirects", "getKeywordIdeas", "getKeywordDifficulty",
     "getTraffic", "getBacklinks"}

\* functions exported by the service
ServiceOps ==
    {"convertToMarkdown", "convertMultipleToMarkdown", "extractData",
     "extractDataMultiple", "scrapeUrl", "extractLinks", "summarizeUrl",
     "summarizeWebsite", "summarizeMultipleUrls", "isUrlAlive",
     "getUrlAfterRedirects"}

MultiUrlOps ==
    {"convertMultipleToMarkdown", "extractDataMultiple", "summarizeMultipleUrls"}

\* name of the first parameter of each controller function
PrimaryField(op) ==
    CASE op \in MultiUrlOps -> "urls"
      [] op \in {"getKeywordIdeas", "getKeywordDifficulty"} -> "keyword"
      [] op = "getTraffic" -> "domainOrUrl"
      [] op = "getBacklinks" -> "domain"
      [] OTHER -> "url"

\* MCP tools registered with the server, and the controller function each
\* handler calls
Tools ==
    {"convert_to_markdown", "convert_multiple_to_markdown", "extract_data",
     "extract_data_multiple", "scrape_url", "extract_links", "summarize_url",
     "summarize_website", "summarize_multiple_urls", "url_is_alive",
     "url_get_after_redirects"}

ToolOp(tool) ==
    CASE tool = "convert_to_markdown" -> "convertToMarkdown"
      [] tool = "convert_multiple_to_markdown" -> "convertMultipleToMarkdown"
      [] tool = "extract_data" -> "extractData"
      [] tool = "extract_data_multiple" -> "extractDataMultiple"
      [] tool = "scrape_url" -> "scrapeUrl"
      [] tool = "extract_links" -> "extractLinks"
      [] tool = "summarize_url" -> "summarizeUrl"
      [] tool = "summarize_website" -> "summarizeWebsite"
      [] tool = "summarize_multiple_urls" -> "summarizeMultipleUrls"
      [] tool = "url_is_alive" -> "isUrlAlive"
      [] tool = "url_get_after_redirects" -> "getUrlAfterRedirects"

----------------------------------------------------------------------------
(* Schema layer: the zod object of each tool *)

\* the schemas with url declared optional
RequiredFields_UrlOptional(tool) ==
    CASE tool \in {"extract_data"} -> {"instructions", "jsonTemplate"}
      [] tool \in {"extract_data_multiple"} -> {"urls", "instructions", "jsonTemplate"}
      [] tool \in {"convert_multiple_to_markdown", "summarize_multiple_urls"} -> {"urls"}
      [] OTHER -> {}

\* fields declared without .optional()
RequiredFields(tool) ==
    CASE tool \in {"extract_data"} -> {"url", "instructions", "jsonTemplate"}
      [] tool \in {"extract_data_multiple"} -> {"urls", "instructions", "jsonTemplate"}
      [] tool \in {"convert_multiple_to_markdown", "summarize_multiple_urls"} -> {"urls"}
      [] OTHER -> {"url"}

\* fields declared with .optional(), api_key apart
OptionalFields(tool) ==
    CASE tool = "convert_to_markdown" -> {"model", "delayAfterLoad", "debug"}
      [] tool = "convert_multiple_to_markdown" ->
            {"model", "delayAfterLoad", "maxLinks", "debug"}
      [] tool = "extract_data" ->
            {"systemPrompt", "model", "delayAfterLoad", "recursive", "debug"}
      [] tool = "extract_data_multiple" ->
            {"systemPrompt", "model", "delayAfterLoad", "debug"}
      [] tool = "scrape_url" -> {"delayAfterLoad"}
      [] tool = "extract_links" ->
            {"type", "maxLinks", "delayAfterLoad", "getStatusCode",
             "autoScrapeInternalLinks", "debug"}
      [] tool = "summarize_url" ->
            {"instructions", "systemPrompt", "model", "delayAfterLoad",
             "maxLength", "format", "debug"}
      [] tool \in {"summarize_website", "summarize_multiple_urls"} ->
            {"instructions", "systemPrompt", "model", "delayAfterLoad",
             "maxLinks", "maxLength", "format", "debug"}
      [] tool = "url_is_alive" -> {"timeout", "proxyUrl"}
      [] tool = "url_get_after_redirects" -> {}

SchemaFields(tool) == RequiredFields(tool) \cup OptionalFields(tool) \cup {"api_key"}

\* z.object(shape).safeParse(args): every required field is present.  (The
\* arguments drawn below are well typed, so presence is all that can fail.)
SchemaAccepts(tool, args) == RequiredFields(tool) \subseteq DOMAIN args

\* the interfaces of the options object each controller function takes
OptionFields(op) ==
    CASE op \in {"convertToMarkdown", "convertMultipleToMarkdown"} ->
            {"model", "delayAfterLoad", "debug"}
      [] op \in {"extractData", "extractDataMultiple"} ->
            {"instructions", "systemPrompt", "jsonTemplate", "model",
             "delayAfterLoad", "recursive", "debug"}
      [] op = "scrapeUrl" -> {"delayAfterLoad"}
      [] op = "extractLinks" ->
            {"type", "maxLinks", "delayAfterLoad", "getStatusCode",
             "autoScrapeInternalLinks", "debug"}
      [] op \in {"summarizeUrl", "summarizeWebsite", "summarizeMultipleUrls"} ->
            {"instructions", "systemPrompt", "model", "delayAfterLoad",
             "maxLinks", "maxLength", "format", "debug"}
      [] op = "isUrlAlive" -> {"timeout", "proxyUrl"}
      [] OTHER -> {}

\* members of those interfaces declared without "?"
RequiredOptionFields(op) ==
    IF op \in {"extractData", "extractDataMultiple"}
       THEN {"instructions", "jsonTemplate"}
       ELSE {}

----------------------------------------------------------------------------
(* Inputs a caller can give *)

Urls == {"https://a.test", "https://b.test"}

\* urls lists: every order, duplicates included, the empty list too
UrlLists == UNION {[1..n -> Urls] : n \in 0..MaxUrls}

\* values a caller passes as api_key when it passes one
KeyArgs == {"", "KEY1"}

\* values config.get('REVIEWWEBSITE_API_KEY') can have
ConfigValues == {Undefined, "", "CFGKEY"}

\* one well-typed value for every field that is not urls or api_key
FieldValue(f) ==
    CASE f = "url" -> "https://a.test"
      [] f = "keyword" -> "seo"
      [] f \in {"domain", "domainOrUrl"} -> "a.test"
      [] f = "instructions" -> "get the title"
      [] f = "jsonTemplate" -> "{\"title\":\"string\"}"
      [] f = "systemPrompt" -> "be brief"
      [] f = "model" -> "gpt-4o"
      [] f = "type" -> "web"
      [] f = "format" -> "bullet"
      [] f = "proxyUrl" -> "http://proxy.test"
      [] f = "delayAfterLoad" -> 500
      [] f = "timeout" -> 5000
      [] f = "maxLinks" -> 10
      [] f = "maxLength" -> 100
      [] f \in {"debug", "recursive", "getStatusCode", "autoScrapeInternalLinks"} -> TRUE

\* an arguments object with the fields present, urls and api_key as given
MakeArgs(present, urls, key) ==
    [f \in present |->
        IF f = "urls" THEN urls ELSE IF f = "api_key" THEN key ELSE FieldValue(f)]

\* which optional fields a caller supplies: none, all, or exactly one
OptionalChoices(fields) == {{}, fields} \cup {{f} : f \in fields}

\* which required fields a caller supplies: all, or all but one
RequiredChoices(fields) == {fields} \cup {fields \ {f} : f \in fields}

\* the arguments objects an MCP client can send to a tool
ToolArgs(tool) ==
    {MakeArgs(R \cup O \cup K, u, k) :
        R \in RequiredChoices(RequiredFields(tool)),
        O \in OptionalChoices(OptionalFields(tool)),
        K \in {{}, {"api_key"}},
        u \in (IF "urls" \in RequiredFields(tool) THEN UrlLists ELSE {<<>>}),
        k \in KeyArgs}

\* the (primary, options, apiOptions) a program can pass to a controller
\* function; the compiler guarantees the required ones
ControllerArgs(op) ==
    {[primary |-> (IF op \in MultiUrlOps THEN u ELSE FieldValue(PrimaryField(op))),
      options |-> MakeArgs(RequiredOptionFields(op) \cup O, <<>>, ""),
      apiOptions |-> MakeArgs(K, <<>>, k)] :
        O \in OptionalChoices(OptionFields(op) \ RequiredOptionFields(op)),
        K \in {{}, {"api_key"}},
        u \in (IF op \in MultiUrlOps THEN UrlLists ELSE {<<>>}),
        k \in KeyArgs}

----------------------------------------------------------------------------
(* Tool handlers: argument marshaling *)

\* the fields a handler copies into the options object it passes on
HandlerForwards(tool) ==
    CASE tool \in {"convert_to_markdown", "convert_multiple_to_markdown"} ->
            {"model", "delayAfterLoad", "debug"}
      [] tool = "extract_data" ->
            {"instructions", "systemPrompt", "jsonTemplate", "model",
             "delayAfterLoad", "recursive", "debug"}
      [] tool = "extract_data_multiple" ->
            {"instructions", "systemPrompt", "jsonTemplate", "model",
             "delayAfterLoad", "debug"}
      [] tool = "scrape_url" -> {"delayAfterLoad"}
      [] tool = "extract_links" ->
            {"type", "maxLinks", "delayAfterLoad", "getStatusCode",
             "autoScrapeInternalLinks", "debug"}
      [] tool = "summarize_url" ->
            {"instructions", "systemPrompt", "model", "delayAfterLoad",
             "maxLength", "format", "debug"}
      [] tool \in {"summarize_website", "summarize_multiple_urls"} ->
            {"instructions", "systemPrompt", "model", "delayAfterLoad",
             "maxLinks", "maxLength", "format", "debug"}
      [] tool = "url_is_alive" -> {"timeout", "proxyUrl"}
      [] tool = "url_get_after_redirects" -> {}

\* the controller call a handler makes for validated args
HandlerCall(tool, args) ==
    [primary |-> Prop(args, PrimaryField(ToolOp(tool))),
     options |-> Pick(args, HandlerForwards(tool)),
     apiOptions |-> Pick(args, {"api_key"})]

\* the record a handler logs on entry: the args with api_key replaced
HandlerLogRecord(args) ==
    LET dropped == IF Falsy(Prop(args, "api_key")) THEN {"api_key"} ELSE {}
    IN  [f \in (DOMAIN args \ dropped) |->
            IF f = "api_key" THEN "[REDACTED]" ELSE args[f]]

----------------------------------------------------------------------------
(* Service: request construction *)

API_BASE == "https://reviewweb.site/api/v1"

Method(op) ==
    IF op \in {"isUrlAlive", "getUrlAfterRedirects"} THEN "GET" ELSE "POST"

Path(op) ==
    CASE op = "convertToMarkdown" -> "/convert/markdown"
      [] op = "convertMultipleToMarkdown" -> "/convert/markdown/urls"
      [] op = "extractData" -> "/extract"
      [] op = "extractDataMultiple" -> "/extract/urls"
      [] op = "scrapeUrl" -> "/scrape"
      [] op = "extractLinks" -> "/scrape/links-map"
      [] op = "summarizeUrl" -> "/summarize/url"
      [] op = "summarizeWebsite" -> "/summarize/website"
      [] op = "summarizeMultipleUrls" -> "/summarize/urls"
      [] op = "isUrlAlive" -> "/url/is-alive"
      [] op = "getUrlAfterRedirects" -> "/url/get-url-after-redirects"

\* the query string with the target URL appended for every single-URL
\* operation
Params_AlwaysUrl(op, primary, options) ==
    IF op \in MultiUrlOps THEN <<>> ELSE <<[name |-> "url", value |-> primary]>>

\* the query string with the number of requests issued so far appended
Params_Numbered(op, primary, options) ==
    <<[name |-> "n", value |-> ToString(Len(sent))]>>

\* the URLSearchParams of the request: appended pairs, in order
Params(op, primary, options) ==
    CASE op \in {"scrapeUrl", "extractLinks", "getUrlAfterRedirects"} ->
            <<[name |-> "url", value |-> primary]>>
      [] op = "isUrlAlive" ->
            <<[name |-> "url", value |-> primary]>>
            \o (IF "timeout" \in DOMAIN options /\ options["timeout"] # 0
                   THEN <<[name |-> "timeout", value |-> ToString(options["timeout"])]>>
                   ELSE <<>>)
            \o (IF ~Falsy(Prop(options, "proxyUrl"))
                   THEN <<[name |-> "proxyUrl", value |-> options["proxyUrl"]]>>
                   ELSE <<>>)
      [] OTHER -> <<>>

HasBody(op) == Method(op) = "POST"

\* a list without its repeated elements
RECURSIVE Dedup(_)
Dedup(list) ==
    IF list = <<>>
       THEN <<>>
       ELSE LET rest == Dedup(SubSeq(list, 1, Len(list) - 1))
                last == list[Len(list)]
            IN  IF \E i \in 1..Len(rest) : rest[i] = last THEN rest ELSE Append(rest, last)

\* the data argument with the urls list de-duplicated
Body_DedupUrls(op, primary, options) ==
    CASE op \in {"convertToMarkdown", "extractData", "summarizeUrl", "summarizeWebsite"} ->
            [f \in {"url", "options"} |-> IF f = "url" THEN primary ELSE options]
      [] op \in MultiUrlOps ->
            [f \in {"urls", "options"} |-> IF f = "urls" THEN Dedup(primary) ELSE options]
      [] op = "scrapeUrl" ->
            [f \in {"options"} |-> Pick(options, {"delayAfterLoad"})]
      [] op = "extractLinks" -> options
      [] OTHER -> EmptyObject

\* the data argument with every option the caller left out sent as null
Body_NullAbsent(op, primary, options) ==
    LET filled == [f \in (OptionFields(op) \cup DOMAIN options) |->
                      IF f \in DOMAIN options THEN options[f] ELSE "null"]
    IN  CASE op \in {"convertToMarkdown", "extractData", "summarizeUrl", "summarizeWebsite"} ->
                [f \in {"url", "options"} |-> IF f = "url" THEN primary ELSE filled]
          [] op \in MultiUrlOps ->
                [f \in {"urls", "options"} |-> IF f = "urls" THEN primary ELSE filled]
          [] op = "scrapeUrl" ->
                [f \in {"options"} |-> Pick(filled, {"delayAfterLoad"})]
          [] op = "extractLinks" -> filled
          [] OTHER -> EmptyObject

\* the data argument of axios.post
Body(op, primary, options) ==
    CASE op \in {"convertToMarkdown", "extractData", "summarizeUrl", "summarizeWebsite"} ->
            [f \in {"url", "options"} |-> IF f = "url" THEN primary ELSE options]
      [] op \in MultiUrlOps ->
            [f \in {"urls", "options"} |-> IF f = "urls" THEN primary ELSE options]
      [] op = "scrapeUrl" ->
            [f \in {"options"} |-> Pick(options, {"delayAfterLoad"})]
      [] op = "extractLinks" -> options
      [] OTHER -> EmptyObject

\* getHeaders that sets X-API-Key whatever apiKey is
getHeaders_AlwaysKey(apiKey) ==
    [h \in {"Content-Type", "X-API-Key"} |->
        IF h = "Content-Type" THEN "application/json" ELSE apiKey]

getHeaders(apiKey) ==
    LET names == {"Content-Type"} \cup (IF Falsy(apiKey) THEN {} ELSE {"X-API-Key"})
    IN  [h \in names |-> IF h = "Content-Type" THEN "application/json" ELSE apiKey]

\* a service that keeps attaching the key of the first request it issued
ServiceRequest_FirstKey(op, primary, options, apiKey) ==
    [method |-> Method(op),
     url |-> API_BASE \o Path(op),
     params |-> Params(op, primary, options),
     hasBody |-> HasBody(op),
     body |-> Body(op, primary, options),
     headers |-> IF sent = <<>> THEN getHeaders(apiKey) ELSE sent[1].headers]

\* the request a service function hands to axios
ServiceRequest(op, primary, options, apiKey) ==
    [method |-> Method(op),
     url |-> API_BASE \o Path(op),
     params |-> Params(op, primary, options),
     hasBody |-> HasBody(op),
     body |-> Body(op, primary, options),
     headers |-> getHeaders(apiKey)]

\* the record a service function logs on entry
ServiceLogRecord(op, primary, options) ==
    [f \in {PrimaryField(op), "options"} |-> IF f = "options" THEN options ELSE primary]

----------------------------------------------------------------------------
(* Errors *)

API_ERROR == "API_ERROR"
UNEXPECTED_ERROR == "UNEXPECTED_ERROR"

\* new Error(message) and the built-in errors
JsError(name, message) ==
    [name |-> name, message |-> message, type |-> "", statusCode |-> 0,
     errorCode |-> "", source |-> "", cause |-> <<>>]

\* new McpError(message, type, statusCode, {errorCode, source, cause})
McpError(message, type, statusCode, errorCode, source, cause) ==
    [name |-> "McpError", message |-> message, type |-> type,
     statusCode |-> statusCode, errorCode |-> errorCode, source |-> source,
     cause |-> cause]

\* what axios rejects with: the request it was given is error.config, and
\* error.response is there when the remote answered
AxiosError(request, code, hasResponse, status, data) ==
    [isAxiosError |-> TRUE, code |-> code, config |-> request,
     hasResponse |-> hasResponse, status |-> status, data |-> data]

ServiceSource(method) == "services/vendor.reviewwebsite.service.ts@" \o method

\* a record handed to the logger
LogRecord(context, level, message, shape, payload) ==
    [context |-> context, level |-> level, message |-> message,
     shape |-> shape, payload |-> payload]

\* handleApiError(error, method): what it logs and what it throws
handleApiErrorLogs(error, method) ==
    <<LogRecord(ServiceSource(method), "error", "API error:", "axiosError", error)>>
    \o (IF error.isAxiosError /\ error.hasResponse
           THEN <<LogRecord(ServiceSource(method), "error",
                            "ReviewWebsite API error response:", "errorResponse",
                            [status |-> error.status,
                             requestUrl |-> error.config.url,
                             requestParams |-> error.config.params])>>
           ELSE <<>>)

\* handleApiError that does not read the answer's body
handleApiError_NoBody(error, method) ==
    IF error.isAxiosError /\ error.hasResponse
       THEN McpError("Unknown error from ReviewWebsite API", API_ERROR, error.status,
                     "reviewwebsite_api_error", ServiceSource(method), <<>>)
       ELSE McpError("Failed to communicate with ReviewWebsite API",
                     UNEXPECTED_ERROR, 500, "reviewwebsite_service_error",
                     ServiceSource(method), <<error>>)

\* handleApiError that puts the cause into the message
handleApiError_CauseMessage(error, method) ==
    IF error.isAxiosError /\ error.hasResponse
       THEN McpError("Unknown error from ReviewWebsite API", API_ERROR, error.status,
                     "reviewwebsite_api_error", ServiceSource(method), <<>>)
       ELSE McpError("Failed to communicate with ReviewWebsite API: " \o error.code,
                     UNEXPECTED_ERROR, 500, "reviewwebsite_service_error",
                     ServiceSource(method), <<error>>)

handleApiError(error, method) ==
    IF error.isAxiosError /\ error.hasResponse
       THEN LET data == error.data
                isObject == Truthy(data) /\ TypeofObject(data)
                errorMessage ==
                    IF isObject /\ HasMember(data, <<"m","e","s","s","a","g","e">>)
                                /\ Truthy(GetMember(data, <<"m","e","s","s","a","g","e">>))
                       THEN Str(GetMember(data, <<"m","e","s","s","a","g","e">>).s)
                       ELSE "Unknown error from ReviewWebsite API"
                errorCode ==
                    IF isObject /\ HasMember(data, <<"e","r","r","o","r">>)
                                /\ Truthy(GetMember(data, <<"e","r","r","o","r">>))
                       THEN Str(GetMember(data, <<"e","r","r","o","r">>).s)
                       ELSE "reviewwebsite_api_error"
            IN  McpError(errorMessage, API_ERROR, error.status, errorCode,
                         ServiceSource(method), <<>>)
       ELSE McpError("Failed to communicate with ReviewWebsite API",
                     UNEXPECTED_ERROR, 500, "reviewwebsite_service_error",
                     ServiceSource(method), <<error>>)

----------------------------------------------------------------------------
(* What the remote service can answer *)

BodyIdAbc == JObj(<<Member(<<"i", "d">>, JStr(<<"a", "b", "c">>))>>)
BodyEmptyObject == JObj(<<>>)
BodyNested ==
    JObj(<<Member(<<"o", "k">>, JBool(TRUE)),
           Member(<<"d", "a", "t", "a">>, JObj(<<Member(<<"l", "i", "n", "k", "s">>, JArr(<<JStr(<<"a">>), JNum(2)>>)),
                                   Member(<<"m", "e", "t", "a">>, JObj(<<>>)),
                                   Member(<<"n", "e", "x", "t">>, JNull)>>))>>)
BodyEmptyList == JArr(<<>>)
BodyQuoted == JStr(<<"a", "\"", "b", "\\", "c">>)
BodyEmptyText == JStr(<<>>)

\* bodies of 2xx answers
SuccessBodies ==
    {BodyIdAbc, BodyEmptyObject, BodyNested, BodyEmptyList, BodyQuoted, BodyEmptyText}

ErrNotFound ==
    JObj(<<Member(<<"m", "e", "s", "s", "a", "g", "e">>, JStr(<<"n", "o", "t", " ", "f", "o", "u", "n", "d">>)), Member(<<"e", "r", "r", "o", "r">>, JStr(<<"n", "o", "t", "_", "f", "o", "u", "n", "d">>))>>)
ErrMessageOnly == JObj(<<Member(<<"m", "e", "s", "s", "a", "g", "e">>, JStr(<<"b", "a", "d", " ", "u", "r", "l">>))>>)
ErrCodeOnly == JObj(<<Member(<<"e", "r", "r", "o", "r">>, JStr(<<"r", "a", "t", "e", "_", "l", "i", "m", "i", "t", "e", "d">>))>>)
ErrEmptyMessage == JObj(<<Member(<<"m", "e", "s", "s", "a", "g", "e">>, JStr(<<>>)), Member(<<"e", "r", "r", "o", "r">>, JStr(<<>>))>>)
ErrOtherObject == JObj(<<Member(<<"d", "e", "t", "a", "i", "l">>, JStr(<<"x">>))>>)
ErrList == JArr(<<JStr(<<"m", "e", "s", "s", "a", "g", "e">>)>>)
ErrText == JStr(<<"B", "a", "d", " ", "G", "a", "t", "e", "w", "a", "y">>)
ErrEmptyText == JStr(<<>>)

\* bodies of non-2xx answers
ErrorBodies ==
    {ErrNotFound, ErrMessageOnly, ErrCodeOnly, ErrEmptyMessage, ErrOtherObject,
     ErrList, ErrText, ErrEmptyText, JNull}

\* statuses axios resolves on (validateStatus: 200 <= status < 300)
SuccessStatuses == {200}

\* statuses axios rejects on, with error.response set
ErrorStatuses == {404, 500}

\* axios error codes of a request that got no response
NoResponseCodes == {"ECONNREFUSED", "ECONNABORTED"}

----------------------------------------------------------------------------
(* Controller *)

ControllerSource(op) == "controllers/reviewwebsite.controller.ts@" \o op

\* getApiKey with the configured key taking precedence
getApiKey_ConfigFirst(options, cfg) ==
    LET apiKey == JsOr(cfg["REVIEWWEBSITE_API_KEY"], Prop(options, "api_key"))
    IN  IF Falsy(apiKey)
           THEN [threw |-> TRUE, value |-> Undefined,
                 error |-> JsError("Error", "API key is required for ReviewWebsite API")]
           ELSE [threw |-> FALSE, value |-> apiKey,
                 error |-> JsError("", "")]

\* getApiKey that reports the missing key as an unexpected error
getApiKey_ThrowsUnexpected(options, cfg) ==
    LET apiKey == JsOr(Prop(options, "api_key"), cfg["REVIEWWEBSITE_API_KEY"])
    IN  IF Falsy(apiKey)
           THEN [threw |-> TRUE, value |-> Undefined,
                 error |-> McpError("API key is required for ReviewWebsite API",
                                    UNEXPECTED_ERROR, 500, "", "", <<>>)]
           ELSE [threw |-> FALSE, value |-> apiKey,
                 error |-> JsError("", "")]

\* getApiKey without the check that a key was found
getApiKey_NoThrow(options, cfg) ==
    [threw |-> FALSE,
     value |-> JsOr(Prop(options, "api_key"), cfg["REVIEWWEBSITE_API_KEY"]),
     error |-> JsError("", "")]

\* getApiKey(options): the key, or the Error it throws
getApiKey(options, cfg) ==
    LET apiKey == JsOr(Prop(options, "api_key"), cfg["REVIEWWEBSITE_API_KEY"])
    IN  IF Falsy(apiKey)
           THEN [threw |-> TRUE, value |-> Undefined,
                 error |-> JsError("Error", "API key is required for ReviewWebsite API")]
           ELSE [threw |-> FALSE, value |-> apiKey,
                 error |-> JsError("", "")]

\* reviewWebsiteService.<op>: a function when the service exports one of
\* that name, undefined otherwise
ServiceHas(op) == op \in ServiceOps

\* JSON.stringify(result, null, 2)
Indent == 2

\* the envelope with JSON.stringify(result), no indentation
ControllerResponse_Compact(result) == [content |-> JSONStringify(result, 0, 0)]

ControllerResponse(result) == [content |-> JSONStringify(result, Indent, 0)]

\* the context each controller function passes to handleControllerError
EntityType(op) ==
    CASE op \in {"convertToMarkdown", "convertMultipleToMarkdown"} -> "Markdown"
      [] op \in {"extractData", "extractDataMultiple"} -> "Data"
      [] op \in {"scrapeUrl", "isUrlAlive", "getUrlAfterRedirects"} -> "URL"
      [] op = "extractLinks" -> "Links"
      [] op = "summarizeUrl" -> "Summary"
      [] op = "summarizeWebsite" -> "Website Summary"
      [] op = "summarizeMultipleUrls" -> "Summaries"
      [] op = "getKeywordIdeas" -> "Keyword Ideas"
      [] op = "getKeywordDifficulty" -> "Keyword Difficulty"
      [] op = "getTraffic" -> "Traffic Data"
      [] op = "getBacklinks" -> "Backlinks Data"

OperationName(op) ==
    CASE op = "convertToMarkdown" -> "converting"
      [] op = "convertMultipleToMarkdown" -> "converting multiple"
      [] op \in {"extractData", "extractLinks"} -> "extracting"
      [] op = "extractDataMultiple" -> "extracting multiple"
      [] op = "scrapeUrl" -> "scraping"
      [] op \in {"summarizeUrl", "summarizeWebsite", "summarizeMultipleUrls"} -> "creating"
      [] op = "isUrlAlive" -> "checking alive status"
      [] op = "getUrlAfterRedirects" -> "getting URL after redirects"
      [] OTHER -> "retrieving"

AdditionalInfo(op, primary) ==
    IF op \in MultiUrlOps
       THEN [f \in {"urlCount"} |-> Len(primary)]
       ELSE [f \in {PrimaryField(op)} |-> primary]

ErrorContext(op, primary) ==
    [entityType |-> EntityType(op), operation |-> OperationName(op),
     source |-> ControllerSource(op), additionalInfo |-> AdditionalInfo(op, primary)]

\* the record a controller function logs on entry
ControllerLogRecord(op, primary, options) ==
    [f \in {PrimaryField(op), "options"} |-> IF f = "options" THEN options ELSE primary]

----------------------------------------------------------------------------
(* Error utilities (utils/error-handler.util.ts, utils/error.util.ts) *)

CONFIGURATION_ERROR == "CONFIGURATION_ERROR"
VALIDATION_ERROR == "VALIDATION_ERROR"

\* handleControllerError(error, context): the normalized error it throws.
\* A client error keeps its message, kind and code; the missing-credential
\* error is a configuration error; anything else is an unexpected error with
\* a generic message.  The error it was given is retained for diagnostics.
handleControllerError(error, context) ==
    LET kind == CASE error.name = "McpError" -> error.type
                  [] error.name = "Error" -> CONFIGURATION_ERROR
                  [] OTHER -> UNEXPECTED_ERROR
        message == IF error.name \in {"McpError", "Error"}
                      THEN error.message
                      ELSE "An unexpected error occurred"
        code == IF error.name = "McpError" THEN error.statusCode ELSE 500
    IN  [name |-> "McpError", message |-> message, type |-> kind,
         statusCode |-> code, context |-> context, originalError |-> <<error>>]

\* formatErrorForMcpTool(error): the error as a text content block
formatErrorForMcpTool(error) ==
    [content |-> <<[type |-> "text", text |-> "Error: " \o error.message]>>]

----------------------------------------------------------------------------
(* The steps of a call *)

NoCall == [frontend |-> "none", name |-> "", op |-> "", args |-> EmptyObject]
NoAnswer == [kind |-> "none", status |-> 0, data |-> JNull, code |-> ""]
NoOutcome == [kind |-> "none", content |-> <<>>, error |-> <<>>]

HandlerSource(tool) == "tools/reviewwebsite.tool.ts@" \o tool

\* a controller function that answers from the result it returned last time
\* when it is called again with the same arguments
ControllerEnter_Cached(op, c, cfg) ==
    LET key == getApiKey(c.apiOptions, cfg)
        context == ErrorContext(op, c.primary)
        entry == LogRecord(ControllerSource(op), "debug", "called", "args",
                           ControllerLogRecord(op, c.primary, c.options))
    IN  IF key.threw
           THEN [threw |-> TRUE, requests |-> <<>>, logs |-> <<entry>>,
                 error |-> <<handleControllerError(key.error, context)>>]
           ELSE IF ~ServiceHas(op)
                   THEN [threw |-> TRUE, requests |-> <<>>, logs |-> <<entry>>,
                         error |-> <<handleControllerError(
                                       JsError("TypeError",
                                               "reviewWebsiteService." \o op
                                                   \o " is not a function"),
                                       context)>>]
                   ELSE [threw |-> FALSE,
                         requests |->
                             IF ctlOut.kind = "returned" /\ call.op = op /\ ctlArgs = <<c>>
                                THEN <<>>
                                ELSE <<ServiceRequest(op, c.primary, c.options, key.value)>>,
                         logs |-> <<entry,
                                    LogRecord(ServiceSource(op), "debug", "called", "args",
                                              ServiceLogRecord(op, c.primary, c.options))>>,
                         error |-> <<>>]

\* controller function, from entry to the await on the service call: either
\* it threw (no credential, or no such service function) or one request is
\* in flight
ControllerEnter(op, c, cfg) ==
    LET key == getApiKey(c.apiOptions, cfg)
        context == ErrorContext(op, c.primary)
        entry == LogRecord(ControllerSource(op), "debug", "called", "args",
                           ControllerLogRecord(op, c.primary, c.options))
    IN  IF key.threw
           THEN [threw |-> TRUE, requests |-> <<>>, logs |-> <<entry>>,
                 error |-> <<handleControllerError(key.error, context)>>]
           ELSE IF ~ServiceHas(op)
                   THEN [threw |-> TRUE, requests |-> <<>>, logs |-> <<entry>>,
                         error |-> <<handleControllerError(
                                       JsError("TypeError",
                                               "reviewWebsiteService." \o op
                                                   \o " is not a function"),
                                       context)>>]
                   ELSE [threw |-> FALSE,
                         requests |-> <<ServiceRequest(op, c.primary, c.options, key.value)>>,
                         logs |-> <<entry,
                                    LogRecord(ServiceSource(op), "debug", "called", "args",
                                              ServiceLogRecord(op, c.primary, c.options))>>,
                         error |-> <<>>]

\* what the controller function returns ...
ControllerReturned(result) ==
    [kind |-> "returned", content |-> ControllerResponse(result).content, error |-> <<>>]

\* ... or throws from its catch block
ControllerThrew(error) == [kind |-> "threw", content |-> "", error |-> <<error>>]

\* response.data, which a service function returns on success
ServiceResult(response) == response.data

\* a handler whose catch block rethrows
HandlerReturn_Rethrows(ctl) ==
    IF ctl.kind = "returned"
       THEN [kind |-> "returned",
             content |-> <<[type |-> "text", text |-> ctl.content]>>,
             error |-> <<>>]
       ELSE [kind |-> "threw", content |-> <<>>, error |-> ctl.error]

\* a tool handler around the controller call: the content block on success,
\* the formatted error from its catch block
HandlerReturn(ctl) ==
    IF ctl.kind = "returned"
       THEN [kind |-> "returned",
             content |-> <<[type |-> "text", text |-> ctl.content]>>,
             error |-> <<>>]
       ELSE [kind |-> "returned",
             content |-> formatErrorForMcpTool(ctl.error[1]).content,
             error |-> <<>>]

\* what a tool handler logs when it catches
HandlerCatchLogs(tool, ctl) ==
    IF ctl.kind = "threw"
       THEN <<LogRecord(HandlerSource(tool), "error", "Error", "error", ctl.error[1])>>
       ELSE <<>>

\* the front end's part once the controller call has settled
FrontEndOut(ctl) == IF call.frontend = "mcp" THEN HandlerReturn(ctl) ELSE ctl
FrontEndLogs(ctl) ==
    IF call.frontend = "mcp" THEN HandlerCatchLogs(call.name, ctl) ELSE <<>>

\* the callers that can have a call running at the same time, and a caller
\* with no call running
Callers == {1, 2}
ConcIdle ==
    [pc |-> "idle", op |-> "", c |-> <<>>, sent |-> <<>>, answer |-> NoAnswer,
     out |-> NoOutcome]

Init ==
    /\ config \in [{"REVIEWWEBSITE_API_KEY"} -> ConfigValues]
    /\ pc = "idle"
    /\ call = NoCall
    /\ ctlArgs = <<>>
    /\ sent = <<>>
    /\ answer = NoAnswer
    /\ svcThrown = <<>>
    /\ ctlOut = NoOutcome
    /\ feOut = NoOutcome
    /\ logs = <<>>
    /\ conc = [id \in Callers |-> ConcIdle]

\* the controller function is entered with c, after the front end logged pre
Enter(frontend, name, op, c, pre) ==
    LET e == ControllerEnter(op, c, config)
        ctl == ControllerThrew(e.error[1])
    IN  /\ ctlArgs' = <<c>>
        /\ sent' = e.requests
        /\ answer' = NoAnswer
        /\ svcThrown' = <<>>
        /\ IF e.threw
              THEN /\ pc' = "done"
                   /\ ctlOut' = ctl
                   /\ feOut' = (IF frontend = "mcp" THEN HandlerReturn(ctl) ELSE ctl)
                   /\ logs' = pre \o e.logs
                              \o (IF frontend = "mcp"
                                     THEN HandlerCatchLogs(name, ctl) ELSE <<>>)
              ELSE /\ pc' = "awaiting"
                   /\ ctlOut' = NoOutcome
                   /\ feOut' = NoOutcome
                   /\ logs' = pre \o e.logs

\* an MCP client calls a tool: the server validates the arguments against
\* the tool's schema and, if they pass, runs the handler
ToolCall ==
    \E tool \in Tools : \E args \in ToolArgs(tool) :
        /\ pc = "idle"
        /\ call' = [frontend |-> "mcp", name |-> tool, op |-> ToolOp(tool), args |-> args]
        /\ IF SchemaAccepts(tool, args)
              THEN Enter("mcp", tool, ToolOp(tool), HandlerCall(tool, args),
                         <<LogRecord(HandlerSource(tool), "debug", "called", "args",
                                     HandlerLogRecord(args))>>)
              ELSE /\ pc' = "done"
                   /\ ctlArgs' = <<>>
                   /\ sent' = <<>>
                   /\ answer' = NoAnswer
                   /\ svcThrown' = <<>>
                   /\ ctlOut' = NoOutcome
                   /\ feOut' = [kind |-> "rejected", content |-> <<>>,
                                error |-> <<JsError(VALIDATION_ERROR, "Invalid arguments")>>]
                   /\ logs' = <<>>
        /\ UNCHANGED <<config, conc>>

\* a program calls a controller function
ControllerCall ==
    \E op \in ControllerOps : \E c \in ControllerArgs(op) :
        /\ pc = "idle"
        /\ call' = [frontend |-> "controller", name |-> op, op |-> op, args |-> c]
        /\ Enter("controller", op, op, c, <<>>)
        /\ UNCHANGED <<config, conc>>

\* the service function's catch block ran: handleApiError logged and threw,
\* the controller's catch block rethrew, the front end finished
Failed(error) ==
    LET thrown == handleApiError(error, call.op)
        ctl == ControllerThrew(
                   handleControllerError(thrown, ErrorContext(call.op, ctlArgs[1].primary)))
    IN  /\ svcThrown' = <<thrown>>
        /\ ctlOut' = ctl
        /\ feOut' = FrontEndOut(ctl)
        /\ logs' = logs \o handleApiErrorLogs(error, call.op) \o FrontEndLogs(ctl)
        /\ pc' = "done"
        /\ UNCHANGED <<conc, config, call, ctlArgs, sent>>

\* the remote answers 2xx
HttpSuccess ==
    \E status \in SuccessStatuses : \E data \in SuccessBodies :
        /\ pc = "awaiting"
        /\ answer' = [kind |-> "response", status |-> status, data |-> data, code |-> ""]
        /\ LET ctl == ControllerReturned(ServiceResult([status |-> status, data |-> data]))
           IN  /\ ctlOut' = ctl
               /\ feOut' = FrontEndOut(ctl)
        /\ logs' = logs \o <<LogRecord(ServiceSource(call.op), "debug", "succeeded",
                                       "none", EmptyObject)>>
        /\ pc' = "done"
        /\ UNCHANGED <<conc, config, call, ctlArgs, sent, svcThrown>>

\* the remote answers outside 2xx: axios rejects with error.response set
HttpErrorResponse ==
    \E status \in ErrorStatuses : \E data \in ErrorBodies :
        /\ pc = "awaiting"
        /\ answer' = [kind |-> "response", status |-> status, data |-> data, code |-> ""]
        /\ Failed(AxiosError(sent[1], "ERR_BAD_RESPONSE", TRUE, status, data))

\* a client that does nothing when no answer arrives: the call stays pending
HttpNoResponse_Hangs ==
    \E code \in NoResponseCodes :
        /\ pc = "awaiting"
        /\ answer' = [kind |-> "noResponse", status |-> 0, data |-> JNull, code |-> code]
        /\ UNCHANGED <<conc, config, call, ctlArgs, sent, svcThrown, ctlOut, feOut, logs, pc>>

\* no answer arrives (connection failure, timeout): axios rejects without
\* error.response
HttpNoResponse ==
    \E code \in NoResponseCodes :
        /\ pc = "awaiting"
        /\ answer' = [kind |-> "noResponse", status |-> 0, data |-> JNull, code |-> code]
        /\ Failed(AxiosError(sent[1], code, FALSE, 0, JNull))

\* the caller has its result; nothing of the call is kept
Return ==
    /\ pc = "done"
    /\ pc' = "idle"
    /\ call' = NoCall
    /\ ctlArgs' = <<>>
    /\ sent' = <<>>
    /\ answer' = NoAnswer
    /\ svcThrown' = <<>>
    /\ ctlOut' = NoOutcome
    /\ feOut' = NoOutcome
    /\ logs' = <<>>
    /\ UNCHANGED <<config, conc>>

Next ==
    \/ ToolCall
    \/ ControllerCall
    \/ HttpSuccess
    \/ HttpErrorResponse
    \/ HttpNoResponse
    \/ Return

Spec == Init /\ [][Next]_vars

\* the request in flight resolves or fails
Resolves == HttpSuccess \/ HttpErrorResponse \/ HttpNoResponse

\* the calls of Spec, every request eventually resolving or failing
LiveSpec == Init /\ [][Next]_vars /\ WF_vars(Resolves)

----------------------------------------------------------------------------
(* Calls running at the same time *)

\* Each caller has its own activation of the controller and service
\* functions: its arguments, its request, the promise of its answer, its
\* result.  The functions write no module-level variable; config is only
\* read.  The steps of different callers interleave at the await.

ConcOps == {"convertToMarkdown", "scrapeUrl"}
ConcKeys == {"KEY1", "KEY2"}

\* what the remote can answer in these runs
ConcAnswers ==
    {[kind |-> "response", status |-> 200, data |-> d, code |-> ""] :
        d \in {BodyIdAbc, BodyEmptyObject}}
    \cup {[kind |-> "response", status |-> 404, data |-> ErrNotFound, code |-> ""],
          [kind |-> "noResponse", status |-> 0, data |-> JNull, code |-> "ECONNREFUSED"]}

\* the answer the awaiting activation of caller id resumes with: the one its
\* own promise settled with
ResponseFor_Latest(id, cs) ==
    IF \E o \in Callers \ {id} : cs[o].pc = "answered"
       THEN cs[CHOOSE o \in Callers \ {id} : cs[o].pc = "answered"].answer
       ELSE cs[id].answer

ResponseFor(id, cs) == cs[id].answer

\* what the controller function returns or throws once its request settled
ControllerSettle(op, c, request, ans) ==
    IF ans.kind = "response" /\ ans.status \in SuccessStatuses
       THEN ControllerReturned(ServiceResult(ans))
       ELSE ControllerThrew(
                handleControllerError(
                    handleApiError(AxiosError(request, ans.code, ans.kind = "response",
                                              ans.status, ans.data), op),
                    ErrorContext(op, c.primary)))

\* a caller calls a controller function with a key of its own, while the
\* other caller may be anywhere in its call
ConcInvoke ==
    \E id \in Callers : \E op \in ConcOps : \E url \in Urls : \E k \in ConcKeys :
        LET c == [primary |-> url, options |-> EmptyObject,
                  apiOptions |-> [api_key |-> k]]
            e == ControllerEnter(op, c, config)
        IN  /\ conc[id].pc = "idle"
            /\ \A o \in Callers \ {id} :
                   IF conc[o].pc = "idle" THEN TRUE
                                          ELSE conc[o].c.apiOptions.api_key # k
            /\ conc' = [conc EXCEPT ![id] =
                           IF e.threw
                              THEN [pc |-> "done", op |-> op, c |-> c, sent |-> <<>>,
                                    answer |-> NoAnswer,
                                    out |-> ControllerThrew(e.error[1])]
                              ELSE [pc |-> "awaiting", op |-> op, c |-> c,
                                    sent |-> e.requests, answer |-> NoAnswer,
                                    out |-> NoOutcome]]
            /\ UNCHANGED <<config, seqVars>>

\* the request of one caller settles
ConcAnswer ==
    \E id \in Callers : \E ans \in ConcAnswers :
        /\ conc[id].pc = "awaiting"
        /\ conc' = [conc EXCEPT ![id].pc = "answered", ![id].answer = ans]
        /\ UNCHANGED <<config, seqVars>>

\* the activation of one caller resumes after its await and finishes
ConcSettle ==
    \E id \in Callers :
        /\ conc[id].pc = "answered"
        /\ conc' = [conc EXCEPT
                       ![id].pc = "done",
                       ![id].out = ControllerSettle(conc[id].op, conc[id].c,
                                                    conc[id].sent[1],
                                                    ResponseFor(id, conc))]
        /\ UNCHANGED <<config, seqVars>>

\* a caller has its result
ConcReturn ==
    \E id \in Callers :
        /\ conc[id].pc = "done"
        /\ conc' = [conc EXCEPT ![id] = ConcIdle]
        /\ UNCHANGED <<config, seqVars>>

ConcNext ==
    \/ ConcInvoke
    \/ ConcAnswer
    \/ ConcSettle
    \/ ConcReturn

ConcSpec == Init /\ [][ConcNext]_vars

----------------------------------------------------------------------------
(* The same call made twice *)

\* the body the first call is answered with in the runs that repeat a call
RepeatedBody == BodyIdAbc

\* how many times the controller function of the call was entered: it logs
\* once on entry
Entries ==
    Cardinality({i \in 1..Len(logs) :
                    /\ logs[i].context = ControllerSource(call.op)
                    /\ logs[i].message = "called"})

\* the caller of a call that succeeded makes the same call once more, with
\* the same arguments; sent keeps the first call's request
RepeatCall ==
    /\ pc = "done"
    /\ call.frontend \in {"mcp", "controller"}
    /\ ctlOut.kind = "returned"
    /\ answer.data = RepeatedBody
    /\ Entries = 1
    /\ LET e == ControllerEnter(call.op, ctlArgs[1], config)
           ctl == ControllerThrew(e.error[1])
           pre == IF call.frontend = "mcp"
                     THEN <<LogRecord(HandlerSource(call.name), "debug", "called",
                                      "args", HandlerLogRecord(call.args))>>
                     ELSE <<>>
       IN  /\ sent' = sent \o e.requests
           /\ answer' = NoAnswer
           /\ svcThrown' = <<>>
           /\ IF e.threw
                 THEN /\ pc' = "done"
                      /\ ctlOut' = ctl
                      /\ feOut' = FrontEndOut(ctl)
                      /\ logs' = logs \o pre \o e.logs \o FrontEndLogs(ctl)
                 ELSE /\ pc' = "awaiting"
                      /\ ctlOut' = NoOutcome
                      /\ feOut' = NoOutcome
                      /\ logs' = logs \o pre \o e.logs
    /\ UNCHANGED <<conc, config, call, ctlArgs>>

RepeatNext ==
    \/ ToolCall
    \/ ControllerCall
    \/ HttpSuccess
    \/ HttpErrorResponse
    \/ HttpNoResponse
    \/ RepeatCall
    \/ Return

RepeatSpec == Init /\ [][RepeatNext]_vars

----------------------------------------------------------------------------
(* The service functions called directly, without the controller *)

\* what a caller can pass as apiKey (apiKey?: string)
ClientKeys == {Undefined, "", "KEY1"}

\* the (primary, options) a program can pass to a service function
ServiceArgs(op) ==
    {[primary |-> c.primary, options |-> c.options] : c \in ControllerArgs(op)}

\* a program calls a service function: it logs and hands the request to axios
ServiceCall ==
    \E op \in ServiceOps : \E a \in ServiceArgs(op) : \E k \in ClientKeys :
        /\ pc = "idle"
        /\ call' = [frontend |-> "service", name |-> op, op |-> op,
                    args |-> [primary |-> a.primary, options |-> a.options,
                              apiKey |-> k]]
        /\ ctlArgs' = <<>>
        /\ sent' = <<ServiceRequest(op, a.primary, a.options, k)>>
        /\ answer' = NoAnswer
        /\ svcThrown' = <<>>
        /\ ctlOut' = NoOutcome
        /\ feOut' = NoOutcome
        /\ logs' = <<LogRecord(ServiceSource(op), "debug", "called", "args",
                               ServiceLogRecord(op, a.primary, a.options))>>
        /\ pc' = "awaiting"
        /\ UNCHANGED <<config, conc>>

\* the remote answers 2xx: the service function returns response.data
ServiceReturns ==
    \E status \in SuccessStatuses : \E data \in SuccessBodies :
        /\ pc = "awaiting"
        /\ call.frontend = "service"
        /\ answer' = [kind |-> "response", status |-> status, data |-> data, code |-> ""]
        /\ feOut' = [kind |-> "returned",
                     content |-> ServiceResult([status |-> status, data |-> data]),
                     error |-> <<>>]
        /\ logs' = logs \o <<LogRecord(ServiceSource(call.op), "debug", "succeeded",
                                       "none", EmptyObject)>>
        /\ pc' = "done"
        /\ UNCHANGED <<conc, config, call, ctlArgs, sent, svcThrown, ctlOut>>

\* axios rejects, with or without an answer: the catch block runs
\* handleApiError, which logs and throws
ServiceThrows ==
    /\ pc = "awaiting"
    /\ call.frontend = "service"
    /\ \E error \in {AxiosError(sent[1], "ERR_BAD_RESPONSE", TRUE, st, d) :
                         st \in ErrorStatuses, d \in ErrorBodies}
                    \cup {AxiosError(sent[1], code, FALSE, 0, JNull) :
                             code \in NoResponseCodes} :
        /\ answer' = (IF error.hasResponse
                         THEN [kind |-> "response", status |-> error.status,
                               data |-> error.data, code |-> ""]
                         ELSE [kind |-> "noResponse", status |-> 0, data |-> JNull,
                               code |-> error.code])
        /\ svcThrown' = <<handleApiError(error, call.op)>>
        /\ feOut' = [kind |-> "threw", content |-> <<>>,
                     error |-> <<handleApiError(error, call.op)>>]
        /\ logs' = logs \o handleApiErrorLogs(error, call.op)
        /\ pc' = "done"
        /\ UNCHANGED <<conc, config, call, ctlArgs, sent, ctlOut>>

ServiceNext ==
    \/ ServiceCall
    \/ ServiceReturns
    \/ ServiceThrows
    \/ Return

ServiceSpec == Init /\ [][ServiceNext]_vars

----------------------------------------------------------------------------
(* The review operations: an earlier tool file and service file *)

\* the tools of the earlier tool file that carry a review identifier
ReviewTools == {"get_review", "update_review", "delete_review"}

\* the controller function the handler of each calls
ReviewToolOp(tool) ==
    CASE tool = "get_review" -> "getReview"
      [] tool = "update_review" -> "updateReview"
      [] tool = "delete_review" -> "deleteReview"

ReviewOps == {ReviewToolOp(tool) : tool \in ReviewTools}

\* whether the controller module exports the function
ControllerHas(op) == op \in ControllerOps

ReviewIds == {"abc", "missing"}

\* the fields of update_review that are declared with .optional()
ReviewUpdateFields(tool) ==
    IF tool = "update_review" THEN {"url", "instructions"} ELSE {}

\* the arguments objects an MCP client can send to a review tool
ReviewToolArgs(tool) ==
    {[f \in R \cup O \cup K |->
         IF f = "review_id" THEN id ELSE IF f = "api_key" THEN k ELSE FieldValue(f)] :
        R \in {{}, {"review_id"}},
        O \in SUBSET ReviewUpdateFields(tool),
        K \in {{}, {"api_key"}},
        id \in ReviewIds,
        k \in KeyArgs}

\* an MCP client calls a review tool: the arguments are validated against
\* the schema, the handler logs them and calls the controller function, and
\* its catch block formats whatever was thrown
ReviewToolCall ==
    \E tool \in ReviewTools : \E args \in ReviewToolArgs(tool) :
        LET op == ReviewToolOp(tool)
            ctl == ControllerThrew(JsError("TypeError",
                                           "reviewWebsiteController." \o op
                                               \o " is not a function"))
        IN  /\ pc = "idle"
            /\ ~ControllerHas(op)  \* so that the call in the handler throws
            /\ call' = [frontend |-> "mcp", name |-> tool, op |-> op, args |-> args]
            /\ ctlArgs' = <<>>
            /\ sent' = <<>>
            /\ answer' = NoAnswer
            /\ svcThrown' = <<>>
            /\ pc' = "done"
            /\ IF "review_id" \notin DOMAIN args
                  THEN /\ ctlOut' = NoOutcome
                       /\ feOut' = [kind |-> "rejected", content |-> <<>>,
                                    error |-> <<JsError(VALIDATION_ERROR,
                                                        "Invalid arguments")>>]
                       /\ logs' = <<>>
                  ELSE /\ ctlOut' = ctl
                       /\ feOut' = HandlerReturn(ctl)
                       /\ logs' = <<LogRecord(HandlerSource(tool), "debug", "called",
                                              "args", HandlerLogRecord(args))>>
                                   \o HandlerCatchLogs(tool, ctl)
            /\ UNCHANGED <<config, conc>>

\* the request a review function of the service hands to axios
ReviewRequest(op, reviewId, update, apiKey) ==
    [method |-> CASE op = "getReview" -> "GET"
                  [] op = "updateReview" -> "PATCH"
                  [] op = "deleteReview" -> "DELETE",
     url |-> API_BASE \o "/review/" \o reviewId,
     params |-> <<>>,
     hasBody |-> op = "updateReview",
     body |-> IF op = "updateReview" THEN update ELSE EmptyObject,
     headers |-> getHeaders(apiKey)]

\* a program calls a review function of the service
ReviewServiceCall ==
    \E op \in ReviewOps : \E id \in ReviewIds : \E k \in ClientKeys :
    \E U \in SUBSET (IF op = "updateReview" THEN {"url", "instructions"} ELSE {}) :
        LET update == [f \in U |-> FieldValue(f)]
        IN  /\ pc = "idle"
            /\ call' = [frontend |-> "service", name |-> op, op |-> op,
                        args |-> [primary |-> id, options |-> update, apiKey |-> k]]
            /\ ctlArgs' = <<>>
            /\ sent' = <<ReviewRequest(op, id, update, k)>>
            /\ answer' = NoAnswer
            /\ svcThrown' = <<>>
            /\ ctlOut' = NoOutcome
            /\ feOut' = NoOutcome
            /\ logs' = <<LogRecord(ServiceSource(op), "debug", "called", "args",
                                   [reviewId |-> id] @@ update)>>
            /\ pc' = "awaiting"
            /\ UNCHANGED <<config, conc>>

ReviewNext ==
    \/ ReviewToolCall
    \/ ReviewServiceCall
    \/ ServiceReturns
    \/ ServiceThrows
    \/ Return

ReviewSpec == Init /\ [][ReviewNext]_vars

----------------------------------------------------------------------------
(* The environment the process starts with *)

EnvNames == {"REVIEWWEBSITE_ACCESS_KEY", "REVIEWWEBSITE_API_KEY"}

\* envSchema.parse(process.env) at startup: REVIEWWEBSITE_ACCESS_KEY must be
\* a string
envSchema(e) == e["REVIEWWEBSITE_ACCESS_KEY"] # Undefined

\* environments a process gets past startup with; config.get(name) reads
\* the variable of that name
Environments ==
    {e \in [EnvNames -> {Undefined, "ACCESSKEY", "CFGKEY"}] :
        /\ envSchema(e)
        /\ e["REVIEWWEBSITE_ACCESS_KEY"] = "ACCESSKEY"
        /\ e["REVIEWWEBSITE_API_KEY"] # "ACCESSKEY"}

EnvInit ==
    /\ config \in Environments
    /\ pc = "idle"
    /\ call = NoCall
    /\ ctlArgs = <<>>
    /\ sent = <<>>
    /\ answer = NoAnswer
    /\ svcThrown = <<>>
    /\ ctlOut = NoOutcome
    /\ feOut = NoOutcome
    /\ logs = <<>>
    /\ conc = [id \in Callers |-> ConcIdle]

EnvSpec == EnvInit /\ [][Next]_vars

----------------------------------------------------------------------------
(* The command line *)

\* subcommands registered with the program, and the controller function each
\* action calls
CliCommands == {"convert-to-markdown", "scrape-url", "extract-links", "summarize-url"}

CliOp(cmd) ==
    CASE cmd = "convert-to-markdown" -> "convertToMarkdown"
      [] cmd = "scrape-url" -> "scrapeUrl"
      [] cmd = "extract-links" -> "extractLinks"
      [] cmd = "summarize-url" -> "summarizeUrl"

\* options declared with .option(), --api-key apart, under the names the
\* parsed options object has
CliOptions(cmd) ==
    CASE cmd = "convert-to-markdown" -> {"model", "delayAfterLoad", "debug"}
      [] cmd = "scrape-url" -> {"delayAfterLoad"}
      [] cmd = "extract-links" ->
            {"type", "maxLinks", "delayAfterLoad", "getStatusCode",
             "autoScrapeInternalLinks", "debug"}
      [] cmd = "summarize-url" ->
            {"instructions", "systemPrompt", "model", "delayAfterLoad",
             "maxLength", "format", "debug"}

\* options declared with .requiredOption()
CliRequired(cmd) == {"url"}

\* the parsed options objects a command line can give
CliArgs(cmd) ==
    {[f \in (R \cup O \cup K) |-> IF f = "apiKey" THEN k ELSE FieldValue(f)] :
        R \in RequiredChoices(CliRequired(cmd)),
        O \in OptionalChoices(CliOptions(cmd)),
        K \in {{}, {"apiKey"}},
        k \in KeyArgs}

\* an action that prefers the configured key to the --api-key flag
CliControllerCall_ConfigFirst(cmd, options, cfg) ==
    LET apiKey == JsOr(cfg["REVIEWWEBSITE_API_KEY"], Prop(options, "apiKey"))
    IN  [primary |-> Prop(options, "url"),
         options |-> Pick(options, CliOptions(cmd)),
         apiOptions |-> IF apiKey = Undefined
                           THEN EmptyObject
                           ELSE [f \in {"api_key"} |-> apiKey]]

\* the controller call an action makes: the key is options.apiKey, or else
\* the configured one
CliControllerCall(cmd, options, cfg) ==
    LET apiKey == JsOr(Prop(options, "apiKey"), cfg["REVIEWWEBSITE_API_KEY"])
    IN  [primary |-> Prop(options, "url"),
         options |-> Pick(options, CliOptions(cmd)),
         apiOptions |-> IF apiKey = Undefined
                           THEN EmptyObject
                           ELSE [f \in {"api_key"} |-> apiKey]]

\* the record an action logs on entry: the options, and api_key redacted
CliLogRecord(options) ==
    LET added == IF Falsy(Prop(options, "apiKey")) THEN {} ELSE {"api_key"}
    IN  [f \in (DOMAIN options \cup added) |->
            IF f = "api_key" THEN "[REDACTED]" ELSE options[f]]

CliSource(cmd) == "cli/reviewwebsite.cli.ts@" \o cmd

\* a subcommand is run: the program refuses a command line without a
\* required option, else the action calls the controller function
CliCall ==
    \E cmd \in CliCommands : \E options \in CliArgs(cmd) :
        /\ pc = "idle"
        /\ call' = [frontend |-> "cli", name |-> cmd, op |-> CliOp(cmd), args |-> options]
        /\ IF CliRequired(cmd) \subseteq DOMAIN options
              THEN Enter("cli", cmd, CliOp(cmd), CliControllerCall(cmd, options, config),
                         <<LogRecord(CliSource(cmd), "debug", "called", "args",
                                     CliLogRecord(options))>>)
              ELSE /\ pc' = "done"
                   /\ ctlArgs' = <<>>
                   /\ sent' = <<>>
                   /\ answer' = NoAnswer
                   /\ svcThrown' = <<>>
                   /\ ctlOut' = NoOutcome
                   /\ feOut' = [kind |-> "rejected", content |-> <<>>,
                                error |-> <<JsError("CommanderError",
                                                    "required option not specified")>>]
                   /\ logs' = <<>>
        /\ UNCHANGED <<config, conc>>

\* calls through every front end
CliNext ==
    \/ CliCall
    \/ ToolCall
    \/ ControllerCall
    \/ HttpSuccess
    \/ HttpErrorResponse
    \/ HttpNoResponse
    \/ Return

CliSpec == Init /\ [][CliNext]_vars

----------------------------------------------------------------------------
(* Service functions with numeric query options *)

\* the options objects a program can pass to isUrlAlive, and the (page, limit)
\* it can pass to listReviews of the earlier service file: each option left
\* out, zero, or positive; proxyUrl left out, empty, or a URL
QueryOptions(op) ==
    IF op = "isUrlAlive"
       THEN UNION {[P -> {0, 5000}] : P \in SUBSET {"timeout"}}
       ELSE UNION {[P -> {0, 2}] : P \in SUBSET {"page", "limit"}}

ProxyOptions(op) ==
    IF op = "isUrlAlive"
       THEN UNION {[P -> {"", "http://proxy.test"}] : P \in SUBSET {"proxyUrl"}}
       ELSE {EmptyObject}

\* the request listReviews hands to axios
ListReviewsRequest(options, apiKey) ==
    [method |-> "GET",
     url |-> API_BASE \o "/review",
     params |-> (IF "page" \in DOMAIN options /\ options["page"] # 0
                    THEN <<[name |-> "page", value |-> ToString(options["page"])]>>
                    ELSE <<>>)
                \o (IF "limit" \in DOMAIN options /\ options["limit"] # 0
                       THEN <<[name |-> "limit", value |-> ToString(options["limit"])]>>
                       ELSE <<>>),
     hasBody |-> FALSE,
     body |-> EmptyObject,
     headers |-> getHeaders(apiKey)]

\* a program calls isUrlAlive
IsUrlAliveCall ==
    \E n \in QueryOptions("isUrlAlive") : \E x \in ProxyOptions("isUrlAlive") :
    \E k \in ClientKeys :
        LET options == [f \in (DOMAIN n \cup DOMAIN x) |->
                           IF f \in DOMAIN n THEN n[f] ELSE x[f]]
            url == FieldValue("url")
        IN  /\ pc = "idle"
            /\ call' = [frontend |-> "service", name |-> "isUrlAlive", op |-> "isUrlAlive",
                        args |-> [primary |-> url, options |-> options, apiKey |-> k]]
            /\ ctlArgs' = <<>>
            /\ sent' = <<ServiceRequest("isUrlAlive", url, options, k)>>
            /\ answer' = NoAnswer
            /\ svcThrown' = <<>>
            /\ ctlOut' = NoOutcome
            /\ feOut' = NoOutcome
            /\ logs' = <<LogRecord(ServiceSource("isUrlAlive"), "debug", "called", "args",
                                   ServiceLogRecord("isUrlAlive", url, options))>>
            /\ pc' = "awaiting"
            /\ UNCHANGED <<config, conc>>

\* a program calls listReviews
ListReviewsCall ==
    \E options \in QueryOptions("listReviews") : \E k \in ClientKeys :
        /\ pc = "idle"
        /\ call' = [frontend |-> "service", name |-> "listReviews", op |-> "listReviews",
                    args |-> [primary |-> Undefined, options |-> options, apiKey |-> k]]
        /\ ctlArgs' = <<>>
        /\ sent' = <<ListReviewsRequest(options, k)>>
        /\ answer' = NoAnswer
        /\ svcThrown' = <<>>
        /\ ctlOut' = NoOutcome
        /\ feOut' = NoOutcome
        /\ logs' = <<LogRecord(ServiceSource("listReviews"), "debug", "called", "args",
                               options)>>
        /\ pc' = "awaiting"
        /\ UNCHANGED <<config, conc>>

QueryNext ==
    \/ IsUrlAliveCall
    \/ ListReviewsCall
    \/ ServiceReturns
    \/ ServiceThrows
    \/ Return

QuerySpec == Init /\ [][QueryNext]_vars

----------------------------------------------------------------------------
(* Two calls in a row, the configuration changing in between *)

\* the operations followed over two calls
KeyOps == {"isUrlAlive", "scrapeUrl", "convertToMarkdown"}

\* the first call is over, the second not yet made
BetweenCalls ==
    /\ pc = "done"
    /\ call.frontend = "controller"
    /\ call.op \in KeyOps
    /\ Entries = 1
    /\ (answer.kind = "none" \/ ctlOut.kind = "returned")

\* the configured key is set to another value while no call is running
ConfigChange ==
    /\ pc = "idle" \/ BetweenCalls
    /\ \E v \in (ConfigValues \cup {"NEWKEY"}) \ {config["REVIEWWEBSITE_API_KEY"]} :
           config' = [config EXCEPT !["REVIEWWEBSITE_API_KEY"] = v]
    /\ UNCHANGED <<pc, call, ctlArgs, sent, answer, svcThrown, ctlOut, feOut, logs, conc>>

\* the program calls the same controller function again, with arguments of
\* its choice; sent and logs keep what the first call left
NextCall ==
    /\ BetweenCalls
    /\ answer.kind = "none" \/ answer.data = RepeatedBody
    /\ \E c \in ControllerArgs(call.op) :
           LET e == ControllerEnter(call.op, c, config)
               ctl == ControllerThrew(e.error[1])
           IN  /\ ctlArgs' = <<c>>
               /\ sent' = sent \o e.requests
               /\ answer' = NoAnswer
               /\ svcThrown' = <<>>
               /\ IF e.threw
                     THEN /\ pc' = "done"
                          /\ ctlOut' = ctl
                          /\ feOut' = ctl
                          /\ logs' = logs \o e.logs
                     ELSE /\ pc' = "awaiting"
                          /\ ctlOut' = NoOutcome
                          /\ feOut' = NoOutcome
                          /\ logs' = logs \o e.logs
    /\ UNCHANGED <<conc, config, call>>

KeyNext ==
    \/ ControllerCall
    \/ ConfigChange
    \/ NextCall
    \/ HttpSuccess
    \/ HttpErrorResponse
    \/ HttpNoResponse
    \/ Return

KeySpec == Init /\ [][KeyNext]_vars

----------------------------------------------------------------------------
(* The command line: numeric flags *)

\* the value of a character as a digit, 36 when it is none
DigitValue(ch) ==
    LET alphabet == <<"0", "1", "2", "3", "4", "5", "6", "7", "8", "9",
                      "a", "b", "c", "d", "e", "f", "g", "h", "i", "j", "k", "l", "m",
                      "n", "o", "p", "q", "r", "s", "t", "u", "v", "w", "x", "y", "z">>
    IN  IF \E i \in 1..Len(alphabet) : alphabet[i] = ch
           THEN (CHOOSE i \in 1..Len(alphabet) : alphabet[i] = ch) - 1
           ELSE 36

\* parseInt(text, radix) of JavaScript, for a text without sign or spaces.
\* A number is [nan |-> FALSE, n |-> its value], NaN is [nan |-> TRUE, n |-> 0];
\* radix is <<r>> for a number r and <<>> for undefined.
parseInt(text, radix) ==
    LET NaN == [nan |-> TRUE, n |-> 0]
        given == IF radix = <<>> THEN 0 ELSE IF radix[1].nan THEN 0 ELSE radix[1].n
        hex == /\ given \in {0, 16}
               /\ Len(text) >= 2
               /\ text[1] = "0"
               /\ text[2] = "x"
        R == IF hex THEN 16 ELSE IF given = 0 THEN 10 ELSE given
        digits == IF hex THEN SubSeq(text, 3, Len(text)) ELSE text
        valid == {k \in 0..Len(digits) : \A i \in 1..k : DigitValue(digits[i]) < R}
        count == CHOOSE k \in valid : \A j \in valid : j <= k
        value[k \in 0..Len(digits)] ==
            IF k = 0 THEN 0 ELSE value[k - 1] * R + DigitValue(digits[k])
    IN  IF given # 0 /\ (given < 2 \/ given > 36)
           THEN NaN
           ELSE IF count = 0 THEN NaN ELSE [nan |-> FALSE, n |-> value[count]]

\* the value commander stores for an option declared with parseInt as its
\* argument parser: each occurrence is parsed by parseInt(value, previous),
\* previous being the value stored so far (<<>> while none is stored)
RECURSIVE commanderParse(_, _)
commanderParse(texts, previous) ==
    IF texts = <<>>
       THEN previous
       ELSE commanderParse(Tail(texts), <<parseInt(Head(texts), previous)>>)

\* what a user can type as the value of a numeric flag
FlagTexts ==
    {<<"8">>, <<"1", "2">>, <<"5", "0", "0">>, <<"0", "x", "1", "0">>, <<"a", "b", "c">>}

\* a subcommand is run with one numeric flag, given once or several times
CliNumericCall ==
    \E cmd \in CliCommands :
    \E flag \in CliOptions(cmd) \cap {"delayAfterLoad", "maxLinks", "maxLength"} :
    \E typed \in UNION {[1..n -> FlagTexts] : n \in 1..MaxOccurrences} :
        LET options == [f \in {"url", flag} |->
                           IF f = "url" THEN FieldValue("url")
                                        ELSE commanderParse(typed, <<>>)[1]]
        IN  /\ pc = "idle"
            /\ call' = [frontend |-> "cli", name |-> cmd, op |-> CliOp(cmd),
                        args |-> [options |-> options, flag |-> flag, typed |-> typed]]
            /\ Enter("cli", cmd, CliOp(cmd), CliControllerCall(cmd, options, config),
                     <<LogRecord(CliSource(cmd), "debug", "called", "args",
                                 CliLogRecord(options))>>)
            /\ UNCHANGED <<config, conc>>

ParseNext ==
    \/ CliNumericCall
    \/ HttpSuccess
    \/ HttpErrorResponse
    \/ HttpNoResponse
    \/ Return

ParseSpec == Init /\ [][ParseNext]_vars

----------------------------------------------------------------------------
(* Properties *)

\* the api_key the controller function was given, Undefined if none
PerCallKey == Prop(ctlArgs[1].apiOptions, "api_key")
ConfiguredKey == config["REVIEWWEBSITE_API_KEY"]
Entered == ctlArgs # <<>>

\* C1: when a call gives a non-empty api_key and a key is configured too,
\* every request of the call carries X-API-Key equal to the call's key, and
\* not the configured one.
C1_PerCallKeyWins ==
    (Entered /\ ~Falsy(PerCallKey) /\ ~Falsy(ConfiguredKey)) =>
        \A i \in 1..Len(sent) :
            /\ "X-API-Key" \in DOMAIN sent[i].headers
            /\ sent[i].headers["X-API-Key"] = PerCallKey
            /\ sent[i].headers["X-API-Key"] # ConfiguredKey

C1_Witness ==
    /\ pc = "awaiting"
    /\ ~Falsy(PerCallKey)
    /\ ~Falsy(ConfiguredKey)
    /\ Len(sent) = 1

\* C2: when a call gives no api_key or an empty one and no key is
\* configured, the controller function throws and the call has issued no
\* request, in any state of the call.
C2_NoKeyNoRequest ==
    (Entered /\ Falsy(PerCallKey) /\ Falsy(ConfiguredKey)) =>
        /\ pc = "done"
        /\ ctlOut.kind = "threw"
        /\ feOut.kind # "none"
        /\ sent = <<>>
        /\ answer = NoAnswer

C2_Witness ==
    /\ Entered
    /\ Falsy(PerCallKey)
    /\ Falsy(ConfiguredKey)
    /\ ctlOut.kind = "threw"
    /\ call.op \in ServiceOps

\* C3: a call whose credential resolves has issued exactly one request, from
\* the moment the controller function is entered to the end of the call.
C3_ExactlyOneRequest ==
    (Entered /\ (~Falsy(PerCallKey) \/ ~Falsy(ConfiguredKey))) => Len(sent) = 1

\* the JSON text expected for each 2xx body, written out
ExpectedText(body) ==
    CASE body = BodyIdAbc -> "{\n  \"id\": \"abc\"\n}"
      [] body = BodyEmptyObject -> "{}"
      [] body = BodyNested ->
            "{\n  \"ok\": true,\n  \"data\": {\n    \"links\": [\n      \"a\",\n      2\n    ],\n    \"meta\": {},\n    \"next\": null\n  }\n}"
      [] body = BodyEmptyList -> "[]"
      [] body = BodyQuoted -> "\"a\\\"b\\\\c\""
      [] body = BodyEmptyText -> "\"\""

\* C4: when the request is answered 2xx, the controller function returns
\* {content} where content is the JSON text of the answer's body, indented
\* by two spaces per level.
C4_SuccessEnvelope ==
    (pc = "done" /\ answer.kind = "response" /\ answer.status \in SuccessStatuses) =>
        ctlOut = [kind |-> "returned", content |-> ExpectedText(answer.data),
                  error |-> <<>>]

C4_Witness ==
    /\ pc = "done"
    /\ answer.kind = "response"
    /\ answer.data = BodyNested
    /\ ctlOut.kind = "returned"

\* the message and error code expected for each non-2xx body, written out
ExpectedMessage(body) ==
    CASE body = ErrNotFound -> "not found"
      [] body = ErrMessageOnly -> "bad url"
      [] OTHER -> "Unknown error from ReviewWebsite API"

ExpectedErrorCode(body) ==
    CASE body = ErrNotFound -> "not_found"
      [] body = ErrCodeOnly -> "rate_limited"
      [] OTHER -> "reviewwebsite_api_error"

\* C5: when the request is answered outside 2xx, the service raises one
\* error of kind API_ERROR whose code is the answer's status, whose message
\* is the body's message when the body is an object with a (non-empty)
\* message and the generic message otherwise, and whose error code is the
\* body's error when it has a (non-empty) one and the default otherwise.
C5_UpstreamError ==
    (pc = "done" /\ answer.kind = "response" /\ answer.status \in ErrorStatuses) =>
        /\ Len(svcThrown) = 1
        /\ svcThrown[1].name = "McpError"
        /\ svcThrown[1].type = API_ERROR
        /\ svcThrown[1].statusCode = answer.status
        /\ svcThrown[1].message = ExpectedMessage(answer.data)
        /\ svcThrown[1].errorCode = ExpectedErrorCode(answer.data)

C5_Witness ==
    /\ pc = "done"
    /\ answer.kind = "response"
    /\ answer.status = 404
    /\ answer.data = ErrNotFound
    /\ Len(svcThrown) = 1
    /\ svcThrown[1].message = "not found"

C7_HandlerAlwaysReturns ==
    (call.frontend = "mcp" /\ Entered /\ pc = "done") =>
        /\ feOut.kind = "returned"
        /\ feOut.error = <<>>
        /\ Len(feOut.content) = 1
        /\ feOut.content[1].type = "text"
        /\ (ctlOut.kind = "returned" => feOut.content[1].text = ctlOut.content)
        /\ (ctlOut.kind = "threw" =>
                feOut.content[1].text = "Error: " \o ctlOut.error[1].message)

C7_Witness ==
    /\ call.frontend = "mcp"
    /\ pc = "done"
    /\ ctlOut.kind = "threw"
    /\ svcThrown # <<>>
    /\ feOut.kind = "returned"

\* credentials reachable from an error object or a logged record
RequestKeys(request) ==
    IF "X-API-Key" \in DOMAIN request.headers
       THEN {request.headers["X-API-Key"]}
       ELSE {}

\* an error raised by the service or by getApiKey: through its cause
RaisedErrorKeys(e) == UNION {RequestKeys(e.cause[i].config) : i \in 1..Len(e.cause)}

\* a normalized error: through the error it retains
NormalizedErrorKeys(e) ==
    UNION {RaisedErrorKeys(e.originalError[i]) : i \in 1..Len(e.originalError)}

LoggedKeys(record) ==
    CASE record.shape = "axiosError" -> RequestKeys(record.payload.config)
      [] record.shape = "error" -> NormalizedErrorKeys(record.payload)
      [] record.shape = "args" ->
            {record.payload[f] : f \in DOMAIN record.payload \cap {"api_key", "apiKey"}}
                \ {"[REDACTED]"}
      [] OTHER -> {}

\* C8: no record logged at error level, no error raised by the service and
\* no error thrown by the controller function holds the API key.
C8_NoCredentialInErrors ==
    /\ \A i \in 1..Len(logs) : logs[i].level = "error" => LoggedKeys(logs[i]) = {}
    /\ \A i \in 1..Len(svcThrown) : RaisedErrorKeys(svcThrown[i]) = {}
    /\ \A i \in 1..Len(ctlOut.error) : NormalizedErrorKeys(ctlOut.error[i]) = {}

\* the required arguments of each tool, as the specification lists them
C9_Required(tool) ==
    (IF tool \in {"convert_multiple_to_markdown", "extract_data_multiple",
                  "summarize_multiple_urls"}
        THEN {"urls"} ELSE {"url"})
    \cup (IF tool \in {"extract_data", "extract_data_multiple"}
             THEN {"instructions", "jsonTemplate"} ELSE {})

\* C9: a tool call that lacks a required argument ends at once with a
\* validation error: the handler is not run and no request is issued.
C9_MissingRequiredRejected ==
    (call.frontend = "mcp" /\ ~(C9_Required(call.name) \subseteq DOMAIN call.args)) =>
        /\ pc = "done"
        /\ feOut.kind = "rejected"
        /\ Len(feOut.error) = 1
        /\ feOut.error[1].name = VALIDATION_ERROR
        /\ ~Entered
        /\ sent = <<>>
        /\ answer = NoAnswer

C9_Witness ==
    /\ call.frontend = "mcp"
    /\ call.name = "scrape_url"
    /\ "url" \notin DOMAIN call.args
    /\ "delayAfterLoad" \in DOMAIN call.args
    /\ feOut.kind = "rejected"

\* the urls list and the extraction options the caller of extractDataMultiple
\* gave
C10_GivenUrls ==
    IF call.frontend = "mcp" THEN call.args["urls"] ELSE call.args.primary

C10_GivenOptions ==
    IF call.frontend = "mcp"
       THEN Pick(call.args, {"instructions", "jsonTemplate", "systemPrompt", "model",
                             "delayAfterLoad", "debug"})
       ELSE call.args.options

\* C10: the request of extractDataMultiple has a body with exactly the
\* fields urls and options: urls is the list given, element for element, and
\* options holds instructions, jsonTemplate and the optional ones given.
C10_ExtractDataMultipleBody ==
    (call.op = "extractDataMultiple" /\ sent # <<>>) =>
        /\ Len(sent) = 1
        /\ sent[1].hasBody
        /\ DOMAIN sent[1].body = {"urls", "options"}
        /\ Len(sent[1].body["urls"]) = Len(C10_GivenUrls)
        /\ \A i \in 1..Len(C10_GivenUrls) : sent[1].body["urls"][i] = C10_GivenUrls[i]
        /\ {"instructions", "jsonTemplate"} \subseteq DOMAIN sent[1].body["options"]
        /\ sent[1].body["options"] = C10_GivenOptions

C10_Witness ==
    /\ call.op = "extractDataMultiple"
    /\ call.frontend = "mcp"
    /\ Len(sent) = 1
    /\ Len(sent[1].body["urls"]) = 2
    /\ sent[1].body["urls"][1] = sent[1].body["urls"][2]
    /\ "systemPrompt" \in DOMAIN sent[1].body["options"]

\* C11: every request a service function issues has Content-Type:
\* application/json; it has X-API-Key exactly when the apiKey it was called
\* with is a non-empty string, and then with that value; it has no other
\* header.
C11_RequestHeaders ==
    (call.frontend = "service") =>
        \A i \in 1..Len(sent) :
            /\ DOMAIN sent[i].headers \subseteq {"Content-Type", "X-API-Key"}
            /\ "Content-Type" \in DOMAIN sent[i].headers
            /\ sent[i].headers["Content-Type"] = "application/json"
            /\ ("X-API-Key" \in DOMAIN sent[i].headers)
                   <=> (call.args.apiKey \notin {Undefined, ""})
            /\ ("X-API-Key" \in DOMAIN sent[i].headers
                   => sent[i].headers["X-API-Key"] = call.args.apiKey)

C11_Witness ==
    /\ call.frontend = "service"
    /\ call.args.apiKey = ""
    /\ Len(sent) = 1
    /\ DOMAIN sent[1].headers = {"Content-Type"}
    /\ pc = "done"

\* C12: when a call that succeeded is made again with the same arguments,
\* the second call issues a request of its own, equal to the first one, and
\* what it returns is the text of the second answer, whatever the first
\* answer was.
C12_RepeatIssuesRequest ==
    (Entered /\ Entries = 2) =>
        /\ Len(sent) = 2
        /\ sent[2] = sent[1]
        /\ (pc = "done" /\ answer.kind = "response"
                        /\ answer.status \in SuccessStatuses
                => ctlOut.content = ExpectedText(answer.data))
        /\ (pc = "done" /\ ~(answer.kind = "response"
                              /\ answer.status \in SuccessStatuses)
                => ctlOut.kind = "threw")

C12_Witness ==
    /\ Entries = 2
    /\ Len(sent) = 2
    /\ pc = "done"
    /\ answer.data = BodyNested
    /\ ctlOut.kind = "returned"

\* the URL path each operation of the concurrent runs posts to, written out
C13_Path(op) ==
    CASE op = "convertToMarkdown" -> "/convert/markdown"
      [] op = "scrapeUrl" -> "/scrape"

\* where the request of an operation carries the URL it was called with
C13_UrlSent(op, request) ==
    CASE op = "convertToMarkdown" -> request.body["url"]
      [] op = "scrapeUrl" ->
            IF Len(request.params) = 1 /\ request.params[1].name = "url"
               THEN request.params[1].value
               ELSE Undefined

\* C13: with two calls running at the same time under different keys, in
\* every interleaving the request of each call carries that call's key and
\* URL and goes to that call's endpoint, and each caller gets the text of
\* the answer to its own request, or the error of its own request.
C13_EachCallItsOwn ==
    \A id \in Callers :
        LET me == conc[id]
        IN  /\ (me.pc \in {"awaiting", "answered"} \/ (me.pc = "done" /\ me.sent # <<>>)) =>
                   /\ Len(me.sent) = 1
                   /\ me.sent[1].headers["X-API-Key"] = me.c.apiOptions.api_key
                   /\ me.sent[1].url = API_BASE \o C13_Path(me.op)
                   /\ C13_UrlSent(me.op, me.sent[1]) = me.c.primary
            /\ (me.pc = "done" /\ me.answer.kind = "response" /\ me.answer.status = 200) =>
                   me.out = [kind |-> "returned",
                             content |-> ExpectedText(me.answer.data),
                             error |-> <<>>]
            /\ (me.pc = "done" /\ me.answer.kind = "response" /\ me.answer.status # 200) =>
                   /\ me.out.kind = "threw"
                   /\ me.out.error[1].type = API_ERROR
                   /\ me.out.error[1].statusCode = me.answer.status
            /\ (me.pc = "done" /\ me.answer.kind = "noResponse") =>
                   /\ me.out.kind = "threw"
                   /\ me.out.error[1].type = UNEXPECTED_ERROR

\* both calls were in flight together, the second one was answered first,
\* with something else
C13_Witness ==
    /\ conc[1].pc = "done"
    /\ conc[2].pc = "answered"
    /\ conc[1].c.apiOptions.api_key = "KEY1"
    /\ conc[2].c.apiOptions.api_key = "KEY2"
    /\ conc[1].c.primary # conc[2].c.primary
    /\ conc[1].op # conc[2].op
    /\ conc[1].answer.kind = "response"
    /\ conc[1].answer.status = 200
    /\ conc[2].answer.kind = "noResponse"
    /\ conc[1].out.kind = "returned"

\* C14: a get_review call that passes validation has, when it ends, issued
\* one GET on /review/{id} with the identifier given, and when that was
\* answered 200 the caller holds one text block with the indented JSON text
\* of the answer's body.
C14_GetReview ==
    (call.name = "get_review" /\ "review_id" \in DOMAIN call.args /\ pc = "done") =>
        /\ Len(sent) = 1
        /\ sent[1].method = "GET"
        /\ sent[1].url = API_BASE \o "/review/" \o call.args["review_id"]
        /\ (answer.kind = "response" /\ answer.status = 200 =>
                feOut.content = <<[type |-> "text", text |-> ExpectedText(answer.data)]>>)

\* C15: in a process that passed the startup check of its environment, a
\* call without a per-call api_key to an operation the service has issues
\* its request with X-API-Key equal to REVIEWWEBSITE_ACCESS_KEY.
C15_StartupKeyAttached ==
    (Entered /\ Falsy(PerCallKey) /\ call.op \in ServiceOps) =>
        /\ Len(sent) = 1
        /\ "X-API-Key" \in DOMAIN sent[1].headers
        /\ sent[1].headers["X-API-Key"] = config["REVIEWWEBSITE_ACCESS_KEY"]

C17_EmptyUrlsRejected ==
    (/\ call.frontend = "mcp"
     /\ call.op \in MultiUrlOps
     /\ "urls" \in DOMAIN call.args
     /\ call.args["urls"] = <<>>) =>
        /\ pc = "done"
        /\ feOut.kind = "rejected"
        /\ ~Entered
        /\ sent = <<>>

\* the optional parameters of the running call's operation, and the ones the
\* caller gave
C18_Optional ==
    CASE call.frontend = "mcp" -> OptionalFields(call.name)
      [] call.frontend = "cli" -> CliOptions(call.name)
      [] call.frontend = "controller" ->
            OptionFields(call.op) \ RequiredOptionFields(call.op)
      [] OTHER -> {}

C18_Supplied ==
    IF call.frontend = "controller" THEN DOMAIN call.args.options ELSE DOMAIN call.args

\* the names that have an entry in a request's query string or JSON body
C18_Entries(request) ==
    {request.params[i].name : i \in 1..Len(request.params)}
    \cup (IF request.hasBody
             THEN DOMAIN request.body
                  \cup (IF "options" \in DOMAIN request.body
                           THEN DOMAIN request.body["options"] ELSE {})
             ELSE {})

\* C18: an optional parameter the caller did not supply has no entry in the
\* query string nor in the JSON body of the request, so no null either.
C18_AbsentOmitted ==
    \A i \in 1..Len(sent) :
        \A f \in (C18_Optional \ C18_Supplied) : f \notin C18_Entries(sent[i])

C18_Witness ==
    /\ call.frontend = "mcp"
    /\ call.name = "summarize_url"
    /\ DOMAIN call.args = {"url", "model"}
    /\ Len(sent) = 1
    /\ DOMAIN sent[1].body["options"] = {"model"}

\* the operations each front end registers
C19_ToolOperations == {ToolOp(tool) : tool \in Tools}
C19_CliOperations == {CliOp(cmd) : cmd \in CliCommands}

\* C19: the MCP tools and the CLI subcommands denote the same operations: an
\* operation called as a tool is registered as a subcommand too, and an
\* operation run as a subcommand is registered as a tool too.
C19_SameOperations ==
    /\ (call.frontend = "mcp") => (call.op \in C19_CliOperations)
    /\ (call.frontend = "cli") => (call.op \in C19_ToolOperations)

\* the options that limit how much an operation processes or returns
C20_ScopeFields == {"maxLinks", "maxLength", "maxExtractedImages", "maxExtractedLinks"}

\* the object of a request's JSON body that carries the options
C20_SentOptions(request) ==
    IF "options" \in DOMAIN request.body THEN request.body["options"] ELSE request.body

\* C20: a scope-limiting option the caller gave to an MCP tool whose schema
\* accepts it is in the request of that call, with the value given.
C20_ScopeLimitsForwarded ==
    (call.frontend = "mcp" /\ sent # <<>>) =>
        \A f \in (C20_ScopeFields \cap SchemaFields(call.name) \cap DOMAIN call.args) :
            /\ f \in DOMAIN C20_SentOptions(sent[1])
            /\ C20_SentOptions(sent[1])[f] = call.args[f]

\* the operations whose target URL goes in the query string
C21_QueryOps == {"scrapeUrl", "extractLinks", "isUrlAlive", "getUrlAfterRedirects"}

\* the query parameters of a request that are named name
C21_QueryEntries(request, name) ==
    {i \in 1..Len(request.params) : request.params[i].name = name}

\* the fields among url and urls that the JSON body of a request has
C21_BodyUrlFields(request) ==
    IF request.hasBody THEN {"url", "urls"} \cap DOMAIN request.body ELSE {}

\* C21: scrapeUrl, extractLinks, isUrlAlive and getUrlAfterRedirects send the
\* target URL as the one query parameter url and not in the body; the convert,
\* extract-data and summarize operations send it as the body field url (urls
\* for a list) and not in the query string.
C21_UrlPlacement ==
    (sent # <<>> /\ call.op \in ServiceOps /\ call.frontend \in {"mcp", "controller"}) =>
        LET request == sent[1]
            primary == ctlArgs[1].primary
        IN  IF call.op \in C21_QueryOps
               THEN /\ Cardinality(C21_QueryEntries(request, "url")) = 1
                    /\ \A i \in C21_QueryEntries(request, "url") :
                           request.params[i].value = primary
                    /\ C21_BodyUrlFields(request) = {}
               ELSE /\ C21_QueryEntries(request, "url") = {}
                    /\ C21_QueryEntries(request, "urls") = {}
                    /\ C21_BodyUrlFields(request) = {PrimaryField(call.op)}
                    /\ request.body[PrimaryField(call.op)] = primary

C21_Witness ==
    /\ call.op = "extractLinks"
    /\ Len(sent) = 1
    /\ sent[1].params = <<[name |-> "url", value |-> "https://a.test"]>>
    /\ DOMAIN sent[1].body = {"maxLinks"}

\* the text a query parameter carries for a supplied value
C22_Text(f, value) == IF f = "proxyUrl" THEN value ELSE ToString(value)

\* C22: every query option given to isUrlAlive (timeout, proxyUrl) or to
\* listReviews (page, limit) is in the query string of the request with the
\* value given, a timeout, page or limit of 0 included.
C22_QueryOptionsSent ==
    (call.frontend = "service" /\ call.op \in {"isUrlAlive", "listReviews"} /\ sent # <<>>) =>
        \A f \in DOMAIN call.args.options :
            \E i \in 1..Len(sent[1].params) :
                /\ sent[1].params[i].name = f
                /\ sent[1].params[i].value = C22_Text(f, call.args.options[f])

\* C23: when the request of a call failed, the context of the error the
\* controller function throws has the source tag of that function and, under
\* the name of its primary parameter (url, urls, keyword, domain), the primary
\* argument of the call.
C23_ErrorContextPrimary ==
    (/\ call.frontend \in {"mcp", "controller"}
     /\ answer.kind # "none"
     /\ ctlOut.kind = "threw") =>
        LET context == ctlOut.error[1].context
            field == PrimaryField(call.op)
        IN  /\ context.source = ControllerSource(call.op)
            /\ field \in DOMAIN context.additionalInfo
            /\ context.additionalInfo[field] = ctlArgs[1].primary

\* the key the second call resolves to: its own api_key, else the key
\* configured when it is made
C24_Resolved == JsOr(PerCallKey, ConfiguredKey)

\* C24: the second of two calls takes its key from its own api_key or, failing
\* that, from the configuration as it is when the call is made: with no key
\* from either it fails without a request, whatever the first call used;
\* otherwise its request carries that key.
C24_KeyResolvedPerCall ==
    (call.frontend = "controller" /\ call.op \in KeyOps /\ Entries = 2) =>
        IF Falsy(C24_Resolved)
           THEN /\ pc = "done"
                /\ ctlOut.kind = "threw"
                /\ answer.kind = "none"
           ELSE /\ sent # <<>>
                /\ "X-API-Key" \in DOMAIN sent[Len(sent)].headers
                /\ sent[Len(sent)].headers["X-API-Key"] = C24_Resolved

\* neither call gave a key: the first went out with the key configured then,
\* the second with the key configured since
C24_Witness ==
    /\ call.frontend = "controller"
    /\ call.op = "isUrlAlive"
    /\ Entries = 2
    /\ Len(sent) = 2
    /\ sent[1].headers["X-API-Key"] = "CFGKEY"
    /\ PerCallKey = Undefined
    /\ sent[2].headers["X-API-Key"] = "NEWKEY"

\* a finished call has a result envelope or an error, not both
C25_OneOutcome ==
    \/ ctlOut.kind = "returned" /\ ctlOut.error = <<>> /\ answer.kind = "response"
    \/ ctlOut.kind = "threw" /\ Len(ctlOut.error) = 1

\* C25: a call that waits has exactly one request in flight; the step that
\* resolves or fails that request can always be taken and is the only step
\* the call can take, and it completes the call; so under LiveSpec, where the
\* request eventually resolves or fails, every call eventually completes.  A
\* completed call has exactly one outcome, a result envelope or an error.
C25_Completes ==
    /\ [](pc = "awaiting" => Len(sent) = 1)
    /\ [](pc = "awaiting" => ENABLED <<Resolves>>_vars)
    /\ [][pc = "awaiting" => (Resolves /\ pc' = "done")]_vars
    /\ []((pc = "done" /\ Entered) => C25_OneOutcome)

C25_Witness ==
    /\ pc = "done"
    /\ call.op = "scrapeUrl"
    /\ Len(sent) = 1
    /\ answer.kind = "noResponse"
    /\ ctlOut.kind = "threw"

\* the direct controller call with the same arguments as the running CLI
\* command and, as per-call key, the --api-key flag if one was given
C26_Direct ==
    [primary |-> ctlArgs[1].primary,
     options |-> ctlArgs[1].options,
     apiOptions |-> IF "apiKey" \in DOMAIN call.args
                       THEN [f \in {"api_key"} |-> call.args["apiKey"]]
                       ELSE EmptyObject]

\* C26: a CLI command attaches the credential, or fails, as the direct
\* controller call does that gets the --api-key flag as its per-call key: the
\* same request with the same headers goes out, or the same error is thrown
\* and no request is issued.
C26_CliAsDirect ==
    (call.frontend = "cli" /\ Entered) =>
        LET direct == ControllerEnter(call.op, C26_Direct, config)
        IN  /\ sent = direct.requests
            /\ direct.threw <=> (answer.kind = "none" /\ ctlOut.kind = "threw")
            /\ direct.threw => (ctlOut.error = direct.error)

C26_Witness ==
    /\ call.frontend = "cli"
    /\ call.name = "convert-to-markdown"
    /\ "apiKey" \notin DOMAIN call.args
    /\ Len(sent) = 1
    /\ sent[1].headers["X-API-Key"] = "CFGKEY"

\* the arguments of the first and of the second of two calls in a row, and
\* the key each request went out with
C27_First == call.args
C27_Second == ctlArgs[1]
C27_Key(request) == Prop(request.headers, "X-API-Key")

\* an object without its field f
C27_Without(obj, f) == Pick(obj, DOMAIN obj \ {f})

\* two objects with the same fields and values (the fields are compared
\* first: values of different fields may be of different types)
C27_Same(a, b) ==
    IF DOMAIN a = DOMAIN b THEN \A g \in DOMAIN a : a[g] = b[g] ELSE FALSE

\* the options a request carries in its body
C27_BodyOptions(request) ==
    IF "options" \in DOMAIN request.body THEN request.body["options"] ELSE EmptyObject

\* two requests that are the same but for the option f in the body
C27_SameBut(r1, r2, f) ==
    /\ r1.method = r2.method
    /\ r1.url = r2.url
    /\ r1.params = r2.params
    /\ r1.headers = r2.headers
    /\ DOMAIN r1.body = DOMAIN r2.body
    /\ \A g \in DOMAIN r1.body \ {"options"} : r1.body[g] = r2.body[g]
    /\ C27_Same(C27_Without(C27_BodyOptions(r1), f), C27_Without(C27_BodyOptions(r2), f))

\* C27: of two calls of an operation in a row that both issue a request, if
\* they agree on the arguments and on the key the requests are identical,
\* whatever happened in between; and if they agree on all but the option
\* debug, or all but delayAfterLoad, the requests agree on all but that
\* option of the body.
C27_RequestFunctionOfCall ==
    (/\ call.frontend = "controller"
     /\ call.op \in KeyOps
     /\ Entries = 2
     /\ Len(sent) = 2
     /\ C27_First.primary = C27_Second.primary
     /\ C27_Key(sent[1]) = C27_Key(sent[2])) =>
        /\ C27_Same(C27_First.options, C27_Second.options) =>
               /\ C27_SameBut(sent[1], sent[2], "")
               /\ sent[1].hasBody = sent[2].hasBody
        /\ \A f \in {"debug", "delayAfterLoad"} :
               C27_Same(C27_Without(C27_First.options, f),
                        C27_Without(C27_Second.options, f))
                   => C27_SameBut(sent[1], sent[2], f)

\* the first call asked for debug, the second did not, all else equal
C27_Witness ==
    /\ call.frontend = "controller"
    /\ call.op = "convertToMarkdown"
    /\ Entries = 2
    /\ Len(sent) = 2
    /\ C27_Key(sent[1]) = C27_Key(sent[2])
    /\ DOMAIN C27_First.options = {"debug"}
    /\ DOMAIN C27_Second.options = {}
    /\ DOMAIN sent[1].body["options"] = {"debug"}
    /\ DOMAIN sent[2].body["options"] = {}

\* the key the caller of the running MCP or CLI call supplied, Undefined if
\* none
C28_Supplied ==
    IF call.frontend = "mcp" THEN Prop(call.args, "api_key") ELSE Prop(call.args, "apiKey")

\* C28: in the record a tool handler or a CLI action logs when it is called
\* with a key, every field that holds the key shows '[REDACTED]'.
C28_FrontEndRecordRedacted ==
    (call.frontend \in {"mcp", "cli"} /\ Entered /\ ~Falsy(C28_Supplied)) =>
        /\ logs # <<>>
        /\ logs[1].context \in {HandlerSource(call.name), CliSource(call.name)}
        /\ \A f \in DOMAIN logs[1].payload \cap {"api_key", "apiKey"} :
               logs[1].payload[f] = "[REDACTED]"

\* the text is a base-10 numeral, and the integer it denotes
C29_IsDecimal(text) == \A i \in 1..Len(text) : DigitValue(text[i]) < 10

RECURSIVE C29_Decimal(_)
C29_Decimal(text) ==
    IF text = <<>>
       THEN 0
       ELSE C29_Decimal(SubSeq(text, 1, Len(text) - 1)) * 10 + DigitValue(text[Len(text)])

\* C29: the controller gets, for a numeric flag, the base-10 integer typed
\* (the last one when the flag is given several times), and a flag value
\* that is not a number does not get into the request.
C29_NumericFlagsParsed ==
    (call.frontend = "cli" /\ Entered) =>
        LET flag == call.args.flag
            typed == call.args.typed
            last == typed[Len(typed)]
            passed == ctlArgs[1].options[flag]
        IN  /\ C29_IsDecimal(last) =>
                   (~passed.nan /\ passed.n = C29_Decimal(last))
            /\ \A i \in 1..Len(sent) :
                   LET sentOptions == IF "options" \in DOMAIN sent[i].body
                                         THEN sent[i].body["options"]
                                         ELSE sent[i].body
                   IN  flag \in DOMAIN sentOptions => ~sentOptions[flag].nan
====
